---- MODULE Spec2Model ----
(***************************************************************************)
(* NewsAgent: the behaviour-learning engine (EnhancedBehaviorSystem) and   *)
(* the cached recommendation engine (CachedRecommendationEngine).          *)
(*                                                                         *)
(* Floats are fixed-point integers: One stands for 1.0, so a weight of     *)
(* 0.125 is 125000.  Products and quotients are computed in the order the  *)
(* code computes them and are floored to one unit (1e-6).                  *)
(* Time is in minutes: datetime.now() and time.time() are the variable     *)
(* now; an ISO timestamp is the minute it denotes, BadTimestamp when the   *)
(* string does not parse.                                                  *)
(***************************************************************************)
EXTENDS Integers, Sequences, FiniteSets, TLC

VARIABLES
  test_mode,               \* EnhancedBehaviorSystem.test_mode
  user_behaviors_cache,    \* user id -> list of behaviour records
  user_preferences_cache,  \* user id -> (category -> weight)
  anomaly_detection,       \* user id -> [behavior_count_last_hour, reset_time]
  system_stats,            \* EnhancedBehaviorSystem.system_stats
  db_behaviors,            \* rows of the user_behaviors table
  now,                     \* wall clock, minutes
  ncalls,                  \* number of calls made so far (bounds the run)
  lastEvent,               \* the event of the last track_behavior call
  lastResult,              \* what the last track_behavior call returned
  returned,                \* the dict the last get_user_preferences call returned
  track_calls,             \* the track_behavior calls in progress, one per thread
  source,                  \* the content source: reachable or not, and its feed
  news_cache,              \* CachedRecommendationEngine.news_cache
  recommendation_cache,    \* CachedRecommendationEngine.recommendation_cache
  score_cache,             \* CachedRecommendationEngine.score_cache
  cache_stats,             \* CachedRecommendationEngine.cache_stats
  work,                    \* fetches from the source and scoring passes so far
  lastCall,                \* the last call on the recommendation engine
  cache_calls              \* the recommend_for_user calls in progress, one per thread

learnVars == <<test_mode, user_behaviors_cache, user_preferences_cache,
               anomaly_detection, system_stats, db_behaviors, lastEvent,
               lastResult, returned, track_calls>>

engineVars == <<source, news_cache, recommendation_cache, score_cache,
                cache_stats, work, lastCall, cache_calls>>

vars == <<test_mode, user_behaviors_cache, user_preferences_cache,
          anomaly_detection, system_stats, db_behaviors, now, ncalls,
          lastEvent, lastResult, returned, track_calls, source, news_cache,
          recommendation_cache, score_cache, cache_stats, work, lastCall,
          cache_calls>>

----------------------------------------------------------------------------
(* Fixed-point arithmetic *)

One == 1000 * 1000

Max(a, b) == IF a >= b THEN a ELSE b
Min(a, b) == IF a <= b THEN a ELSE b

\* floor(a * b / One) for a, b >= 0, without leaving 32 bits
MulS(a, b) ==
  LET ah == a \div 1000
      al == a % 1000
      bh == b \div 1000
      bl == b % 1000
  IN  ah * bh + ((ah * bl + al * bh) + ((al * bl) \div 1000)) \div 1000

\* floor(a * One / b) for a >= 0, b > 0, without leaving 32 bits
DivS(a, b) ==
  LET n == a * 1000
  IN  (n \div b) * 1000 + ((n % b) * 1000) \div b

RECURSIVE SumSeq(_)
SumSeq(s) == IF s = <<>> THEN 0 ELSE Head(s) + SumSeq(Tail(s))

RECURSIVE SeqToSet(_)
SeqToSet(s) == IF s = <<>> THEN {} ELSE {Head(s)} \cup SeqToSet(Tail(s))

----------------------------------------------------------------------------
(* Configuration of EnhancedBehaviorSystem.__init__ *)

\* the eight keys of the default preference vector, in insertion order
CategoryOrder ==
  <<"ai_ml", "startup_venture", "web3_crypto", "programming",
    "hardware_chips", "consumer_tech", "enterprise_saas", "social_media">>

Categories == SeqToSet(CategoryOrder)

DefaultWeight == 125000

DefaultPrefs == [c \in Categories |-> DefaultWeight]

\* behavior_weights, in units of 1e-6
BehaviorWeights(action) ==
  CASE action = "view"           -> 10000
    [] action = "click"          -> 30000
    [] action = "read"           -> 50000
    [] action = "deep_read"      -> 120000
    [] action = "share"          -> 180000
    [] action = "like"           -> 80000
    [] action = "bookmark"       -> 100000
    [] action = "comment"        -> 60000
    [] action = "dislike"        -> -120000
    [] action = "skip"           -> -40000
    [] action = "report"         -> -200000
    [] action = "block_category" -> -250000
    [] OTHER                     -> 10000

NegativeActions == {"dislike", "skip", "report", "block_category"}

BaseLearningRate == 120000
DecayFactor == 950000
HourDecayFactor == 997865      \* 0.95 ** (1/24)
MinTimeWeight == 100000
MaxDays == 30
ConfidenceThreshold == 10
MinWeight == 20000
MaxWeight == 450000
EngagementFloor == 1000

DeepReadDuration == 90
SkipDuration == 15
HighScroll == 75
LowScroll == 25
QualityReading == 60
BounceThreshold == 5

HistoryCap == 100
AnomalyCeiling == 1000
AnomalyWindow == 60

MinutesPerHour == 60
MinutesPerDay == 1440

BadTimestamp == -1

----------------------------------------------------------------------------
(* Helper methods of EnhancedBehaviorSystem *)

\* datetime.fromisoformat(timestamp).hour
HourOf(ts) == (ts \div MinutesPerHour) % 24

\* _smart_action_adjustment
SmartActionAdjustment(ev) ==
  LET action   == ev.action
      duration == ev.reading_duration
      scroll   == ev.scroll_percentage
  IN  IF action = "read" THEN
        IF duration >= DeepReadDuration THEN
          IF scroll >= HighScroll THEN "deep_read" ELSE "read"
        ELSE IF duration <= SkipDuration THEN "skip"
        ELSE IF scroll < LowScroll THEN "skip"
        ELSE action
      ELSE IF action = "click" THEN
        IF duration > QualityReading THEN "read"
        ELSE IF duration <= BounceThreshold THEN "skip"
        ELSE action
      ELSE action

\* base_score before the final max(0.001, base_score)
RawEngagement(ev, action) ==
  LET base0 == BehaviorWeights(action)
      base1 == IF action \in {"read", "deep_read"} /\ ev.reading_duration > 60
               THEN (base0 * (240 + Min(ev.reading_duration, 120))) \div 240
               ELSE base0
      base2 == IF ev.scroll_percentage > HighScroll THEN (base1 * 13) \div 10
               ELSE IF ev.scroll_percentage < LowScroll THEN (base1 * 7) \div 10
               ELSE base1
      base3 == IF ev.timestamp = BadTimestamp THEN base2
               ELSE IF 9 <= HourOf(ev.timestamp) /\ HourOf(ev.timestamp) <= 17
                    THEN (base2 * 11) \div 10
               ELSE IF 21 <= HourOf(ev.timestamp) /\ HourOf(ev.timestamp) <= 23
                    THEN (base2 * 12) \div 10
               ELSE base2
  IN  base3

CalculateEnhancedEngagement_Zero(ev, action) == 0

\* _calculate_enhanced_engagement
CalculateEnhancedEngagement(ev, action) ==
  Max(EngagementFloor, RawEngagement(ev, action))

CalculateUserConfidence_Uncapped(cache, user_id) ==
  IF user_id \notin DOMAIN cache THEN 0
  ELSE (Len(cache[user_id]) * One) \div ConfidenceThreshold
       + Min((Cardinality({cache[user_id][i].action :
                             i \in 1..Len(cache[user_id])}) * One) \div 6, 200000)

\* _calculate_user_confidence
CalculateUserConfidence(cache, user_id) ==
  IF user_id \notin DOMAIN cache THEN 0
  ELSE
    LET behaviors       == cache[user_id]
        behavior_count  == Len(behaviors)
        base_confidence == Min((behavior_count * One) \div ConfidenceThreshold, One)
        unique_actions  == Cardinality({behaviors[i].action : i \in 1..behavior_count})
        diversity_bonus == Min((unique_actions * One) \div 6, 200000)
    IN  IF behavior_count > 0
        THEN Min(base_confidence + diversity_bonus, One)
        ELSE Min(base_confidence, One)

\* a learning rate that ignores the confidence
CalculateAdaptiveLearningRate_Flat(confidence) == BaseLearningRate

\* _calculate_adaptive_learning_rate
CalculateAdaptiveLearningRate(confidence) ==
  IF confidence < 300000 THEN (BaseLearningRate * 14) \div 10
  ELSE IF confidence > 700000 THEN (BaseLearningRate * 8) \div 10
  ELSE BaseLearningRate

\* base ** n for a whole number n >= 0, by repeated squaring
RECURSIVE PowS(_, _)
PowS(base, n) ==
  IF n = 0 THEN One
  ELSE LET half == PowS(base, n \div 2)
           square == MulS(half, half)
       IN  IF n % 2 = 1 THEN MulS(square, base) ELSE square

\* decay_factor ** (m / 1440) for m >= 0 minutes, to the hour
DecayPow(m) ==
  LET hours == m \div MinutesPerHour
      days_part == PowS(DecayFactor, hours \div 24)
      hours_part == PowS(HourDecayFactor, hours % 24)
  IN  MulS(days_part, hours_part)

\* _calculate_time_weight
CalculateTimeWeight(timestamp) ==
  IF timestamp = BadTimestamp THEN One
  ELSE LET age == now - timestamp
           time_weight == IF age >= 0 THEN DecayPow(age)
                          ELSE DivS(One, DecayPow(-age))
       IN  Max(MinTimeWeight, time_weight)

SumWeights(w) == SumSeq([i \in 1..Len(CategoryOrder) |-> w[CategoryOrder[i]]])

\* FinalNormalize with the closing division left out
FinalNormalize_Skipped(w) == w

\* the last pass of _smart_normalize_weights: divide by the total
FinalNormalize(w) ==
  LET final_total == SumWeights(w)
  IN  IF final_total > 0
      THEN [c \in Categories |-> DivS(w[c], final_total)]
      ELSE w

\* _smart_normalize_weights
SmartNormalizeWeights(weights, updated_category, adjustment) ==
  LET total == SumWeights(weights)
      total_other == total - weights[updated_category]
      reduced ==
        IF adjustment > 0 /\ total_other > 0 /\ total > One
        THEN LET excess == total - One
                 reduction_factor == DivS(excess, total_other)
             IN  [c \in Categories |->
                    IF c = updated_category THEN weights[c]
                    ELSE Max(MinWeight, MulS(weights[c], One - reduction_factor))]
        ELSE weights
  IN  IF total <= 0
      THEN [c \in Categories |-> One \div Len(CategoryOrder)]
      ELSE FinalNormalize(reduced)

\* a _store_behavior_in_cache that appends to one list all users share
StoreBehaviorInCache_SharedList(cache, bd) ==
  [u \in DOMAIN cache \cup {bd.user_id} |->
     Append(IF u \in DOMAIN cache THEN cache[u] ELSE <<>>, bd)]

\* _store_behavior_in_cache
StoreBehaviorInCache(cache, bd) ==
  LET user_id == bd.user_id
      old == IF user_id \in DOMAIN cache THEN cache[user_id] ELSE <<>>
      appended == Append(old, bd)
      kept == IF Len(appended) > HistoryCap
              THEN SubSeq(appended, Len(appended) - HistoryCap + 1, Len(appended))
              ELSE appended
  IN  [u \in DOMAIN cache \cup {user_id} |-> IF u = user_id THEN kept ELSE cache[u]]

FilterRecent(behaviors, cutoff) ==
  SelectSeq(behaviors,
            LAMBDA b : b.timestamp # BadTimestamp /\ b.timestamp > cutoff)

\* _cleanup_old_data
CleanupOldData(cache, user_id) ==
  IF user_id \notin DOMAIN cache THEN cache
  ELSE [cache EXCEPT ![user_id] = FilterRecent(@, now - MaxDays * MinutesPerDay)]

\* _update_statistics
UpdateStatistics(stats, cache, bd) ==
  LET s1 == [stats EXCEPT !.total_behaviors = @ + 1]
  IN  IF bd.user_id \notin DOMAIN cache \/ Len(cache[bd.user_id]) = 1
      THEN [s1 EXCEPT !.total_users = @ + 1]
      ELSE s1

\* _detect_anomaly_light: the verdict and the anomaly table it leaves
DetectAnomalyLight(ad, ev) ==
  LET user_id == ev.user_id
      current_time == ev.timestamp
  IN  IF ~test_mode THEN [anomaly |-> FALSE, ad |-> ad]
      ELSE IF current_time = BadTimestamp THEN [anomaly |-> FALSE, ad |-> ad]
      ELSE IF user_id \notin DOMAIN ad
        THEN [anomaly |-> FALSE,
              ad |-> [u \in DOMAIN ad \cup {user_id} |->
                        IF u = user_id
                        THEN [behavior_count_last_hour |-> 0,
                              reset_time |-> current_time]
                        ELSE ad[u]]]
      ELSE
        LET ua == ad[user_id]
            r  == IF current_time - ua.reset_time > AnomalyWindow
                  THEN [behavior_count_last_hour |-> 0, reset_time |-> current_time]
                  ELSE ua
            counted == [r EXCEPT !.behavior_count_last_hour = @ + 1]
        IN  [anomaly |-> counted.behavior_count_last_hour > AnomalyCeiling,
             ad |-> [ad EXCEPT ![user_id] = counted]]

NoUpdate ==
  [error |-> "none", old_weight |-> 0, new_weight |-> 0, adjustment |-> 0,
   learning_rate |-> 0, user_confidence |-> 0]

\* _intelligent_preference_update: the preference table it leaves and the
\* learning_update it returns (full precision)
IntelligentPreferenceUpdate(prefs, cache, bd) ==
  LET user_id  == bd.user_id
      category == bd.news_category
      prefs1 == IF user_id \in DOMAIN prefs THEN prefs
                ELSE [u \in DOMAIN prefs \cup {user_id} |->
                        IF u = user_id THEN DefaultPrefs ELSE prefs[u]]
      current_prefs == prefs1[user_id]
  IN  IF category \notin DOMAIN current_prefs
      THEN [prefs |-> prefs1, update |-> [NoUpdate EXCEPT !.error = "unknown_category"]]
      ELSE
        LET user_confidence == CalculateUserConfidence(cache, user_id)
            adaptive_lr == CalculateAdaptiveLearningRate(user_confidence)
            time_weight == CalculateTimeWeight(bd.timestamp)
            rated == MulS(bd.engagement_score, adaptive_lr)
            weight_adjustment == MulS(rated, time_weight)
            old_weight == current_prefs[category]
            new_weight == Max(MinWeight, Min(MaxWeight, old_weight + weight_adjustment))
            updated == SmartNormalizeWeights(
                         [current_prefs EXCEPT ![category] = new_weight],
                         category, weight_adjustment)
        IN  [prefs |-> [prefs1 EXCEPT ![user_id] = updated],
             update |-> [error |-> "none", old_weight |-> old_weight,
                         new_weight |-> updated[category],
                         adjustment |-> weight_adjustment,
                         learning_rate |-> adaptive_lr,
                         user_confidence |-> user_confidence]]

----------------------------------------------------------------------------
(* track_behavior *)

NoEvent ==
  [user_id |-> "none", action |-> "none", news_category |-> "none",
   reading_duration |-> 0, scroll_percentage |-> 0, timestamp |-> BadTimestamp]

NoResult ==
  [success |-> FALSE, error |-> "not_called", enhanced_action |-> "none",
   engagement_score |-> 0, learning_update |-> NoUpdate, user_confidence |-> 0]

\* the behavior_data dict built from the event
BehaviorData(ev, enhanced, score) ==
  [user_id |-> ev.user_id, action |-> enhanced,
   original_action |-> ev.action, news_category |-> ev.news_category,
   reading_duration |-> ev.reading_duration,
   scroll_percentage |-> ev.scroll_percentage,
   engagement_score |-> score, timestamp |-> ev.timestamp]

\* track_behavior(event).  dbOk is what db.save_user_behavior returns: the
\* persistence collaborator either stores the row or refuses it.  (The
\* TechSumDatabase of this repository reads behavior_dict["news_id"], a key
\* track_behavior never sets, and so refuses every row; the engine is
\* modelled against any persistence, this one included.)
Track(ev, dbOk) ==
  LET det == DetectAnomalyLight(anomaly_detection, ev)
      enhanced_action == SmartActionAdjustment(ev)
      engagement_score == CalculateEnhancedEngagement(ev, enhanced_action)
      behavior_data == BehaviorData(ev, enhanced_action, engagement_score)
      cache1 == StoreBehaviorInCache(user_behaviors_cache, behavior_data)
      learned == IntelligentPreferenceUpdate(user_preferences_cache, cache1,
                                             behavior_data)
      cache2 == CleanupOldData(cache1, ev.user_id)
  IN  /\ ncalls' = ncalls + 1
      /\ lastEvent' = ev
      /\ anomaly_detection' = det.ad
      /\ UNCHANGED <<test_mode, now, returned, track_calls>>
      /\ UNCHANGED engineVars
      /\ IF det.anomaly THEN
           /\ system_stats' = [system_stats EXCEPT !.anomalies_detected = @ + 1]
           /\ lastResult' = [NoResult EXCEPT !.error = "anomaly"]
           /\ UNCHANGED <<user_behaviors_cache, user_preferences_cache, db_behaviors>>
         ELSE IF dbOk THEN
           /\ db_behaviors' = Append(db_behaviors, behavior_data)
           /\ user_behaviors_cache' = cache2
           /\ user_preferences_cache' = learned.prefs
           /\ system_stats' =
                UpdateStatistics(
                  IF learned.update.error = "none"
                  THEN [system_stats EXCEPT !.learning_updates = @ + 1]
                  ELSE system_stats,
                  cache2, behavior_data)
           /\ lastResult' =
                [success |-> TRUE, error |-> "none",
                 enhanced_action |-> enhanced_action,
                 engagement_score |-> engagement_score,
                 learning_update |-> learned.update,
                 user_confidence |-> CalculateUserConfidence(cache2, ev.user_id)]
         ELSE
           /\ lastResult' = [NoResult EXCEPT !.error = "db_save_failed"]
           /\ UNCHANGED <<user_behaviors_cache, user_preferences_cache,
                          db_behaviors, system_stats>>

----------------------------------------------------------------------------
(* get_user_preferences, and a caller that writes into the dict it got *)

NoReturned == [user_id |-> "none", shared |-> FALSE, prefs |-> DefaultPrefs]

GetUserPreferencesResult_NoCopy(prefs, user_id) ==
  [user_id |-> user_id, shared |-> TRUE,
   prefs |-> IF user_id \in DOMAIN prefs THEN prefs[user_id] ELSE DefaultPrefs]

\* what get_user_preferences returns: .copy() makes a dict of its own, so
\* the caller's dict is not the object the engine holds (shared is FALSE)
GetUserPreferencesResult(prefs, user_id) ==
  [user_id |-> user_id, shared |-> FALSE,
   prefs |-> IF user_id \in DOMAIN prefs THEN prefs[user_id] ELSE DefaultPrefs]

\* get_user_preferences
GetUserPreferences(user_id) ==
  /\ ncalls' = ncalls + 1
  /\ returned' = GetUserPreferencesResult(user_preferences_cache, user_id)
  /\ IF user_id \in DOMAIN user_preferences_cache
     THEN /\ system_stats' = [system_stats EXCEPT !.cache_hits = @ + 1]
          /\ UNCHANGED user_preferences_cache
     ELSE /\ system_stats' = [system_stats EXCEPT !.cache_misses = @ + 1]
          /\ user_preferences_cache' =
               [u \in DOMAIN user_preferences_cache \cup {user_id} |->
                  IF u = user_id THEN DefaultPrefs
                  ELSE user_preferences_cache[u]]
  /\ UNCHANGED <<test_mode, user_behaviors_cache, anomaly_detection,
                 db_behaviors, lastEvent, lastResult, now, track_calls>>
  /\ UNCHANGED engineVars

\* the caller assigns returned[category] = weight; the write lands in the
\* engine's dict too when the two are one object
MutateReturned(category, weight) ==
  /\ returned.user_id # "none"
  /\ ncalls' = ncalls + 1
  /\ returned' = [returned EXCEPT !.prefs[category] = weight]
  /\ user_preferences_cache' =
       IF returned.shared
       THEN [user_preferences_cache EXCEPT ![returned.user_id][category] = weight]
       ELSE user_preferences_cache
  /\ UNCHANGED <<test_mode, user_behaviors_cache, anomaly_detection,
                 system_stats, db_behaviors, lastEvent, lastResult, now,
                 track_calls>>
  /\ UNCHANGED engineVars

----------------------------------------------------------------------------
(* track_behavior called from several threads on one engine.  The engine  *)
(* takes no lock, so a thread may be descheduled between any two          *)
(* statements; the steps below are the statements of track_behavior and   *)
(* _intelligent_preference_update that read or write the shared tables.   *)

Threads == {"t1", "t2"}

IdleCall ==
  [pc |-> "idle", seq |-> 0, event |-> NoEvent,
   behavior_data |-> BehaviorData(NoEvent, "none", 0),
   new_weight |-> 0, update |-> NoUpdate, result |-> NoResult]

NoTrackCalls == [t \in Threads |-> IdleCall]

\* lines 123-160: anomaly check, behavior_data, db.save_user_behavior,
\* _store_behavior_in_cache; seq is the order in which the calls get here
TrackEnter(t, ev) ==
  LET det == DetectAnomalyLight(anomaly_detection, ev)
      enhanced_action == SmartActionAdjustment(ev)
      engagement_score == CalculateEnhancedEngagement(ev, enhanced_action)
      behavior_data == BehaviorData(ev, enhanced_action, engagement_score)
      call == [IdleCall EXCEPT !.event = ev, !.seq = ncalls + 1,
                               !.behavior_data = behavior_data]
  IN  /\ track_calls[t].pc \in {"idle", "returned"}
      /\ ncalls' = ncalls + 1
      /\ anomaly_detection' = det.ad
      /\ IF det.anomaly THEN
           /\ system_stats' = [system_stats EXCEPT !.anomalies_detected = @ + 1]
           /\ track_calls' =
                [track_calls EXCEPT ![t] =
                   [call EXCEPT !.pc = "returned",
                                !.result = [NoResult EXCEPT !.error = "anomaly"]]]
           /\ lastEvent' = ev
           /\ lastResult' = [NoResult EXCEPT !.error = "anomaly"]
           /\ UNCHANGED <<user_behaviors_cache, db_behaviors>>
         ELSE
           /\ db_behaviors' = Append(db_behaviors, behavior_data)
           /\ user_behaviors_cache' =
                StoreBehaviorInCache(user_behaviors_cache, behavior_data)
           /\ track_calls' = [track_calls EXCEPT ![t] = [call EXCEPT !.pc = "stored"]]
           /\ UNCHANGED <<system_stats, lastEvent, lastResult>>
      /\ UNCHANGED <<test_mode, now, returned, user_preferences_cache>>
      /\ UNCHANGED engineVars

\* lines 213-249: the default vector for a new user, the learning rate from
\* the history as it is now, old_weight read from the shared vector and
\* new_weight computed into a local
TrackReadWeight(t) ==
  LET call == track_calls[t]
      bd == call.behavior_data
      user_id == bd.user_id
      category == bd.news_category
      prefs1 == IF user_id \in DOMAIN user_preferences_cache
                THEN user_preferences_cache
                ELSE [u \in DOMAIN user_preferences_cache \cup {user_id} |->
                        IF u = user_id THEN DefaultPrefs
                        ELSE user_preferences_cache[u]]
      user_confidence == CalculateUserConfidence(user_behaviors_cache, user_id)
      adaptive_lr == CalculateAdaptiveLearningRate(user_confidence)
      time_weight == CalculateTimeWeight(bd.timestamp)
      weight_adjustment == MulS(MulS(bd.engagement_score, adaptive_lr), time_weight)
      old_weight == prefs1[user_id][category]
  IN  /\ call.pc = "stored"
      /\ user_preferences_cache' = prefs1
      /\ track_calls' =
           IF category \notin DOMAIN prefs1[user_id]
           THEN [track_calls EXCEPT ![t].pc = "updated",
                   ![t].update = [NoUpdate EXCEPT !.error = "unknown_category"]]
           ELSE [track_calls EXCEPT ![t].pc = "computed",
                   ![t].new_weight =
                      Max(MinWeight, Min(MaxWeight, old_weight + weight_adjustment)),
                   ![t].update =
                      [error |-> "none", old_weight |-> old_weight,
                       new_weight |-> 0, adjustment |-> weight_adjustment,
                       learning_rate |-> adaptive_lr,
                       user_confidence |-> user_confidence]]
      /\ UNCHANGED <<test_mode, user_behaviors_cache, anomaly_detection,
                     system_stats, db_behaviors, now, ncalls, lastEvent,
                     lastResult, returned>>
      /\ UNCHANGED engineVars

\* line 253: current_prefs[category] = new_weight
TrackWriteWeight(t) ==
  LET call == track_calls[t]
      bd == call.behavior_data
  IN  /\ call.pc = "computed"
      /\ user_preferences_cache' =
           [user_preferences_cache EXCEPT
              ![bd.user_id][bd.news_category] = call.new_weight]
      /\ track_calls' = [track_calls EXCEPT ![t].pc = "written"]
      /\ UNCHANGED <<test_mode, user_behaviors_cache, anomaly_detection,
                     system_stats, db_behaviors, now, ncalls, lastEvent,
                     lastResult, returned>>
      /\ UNCHANGED engineVars

\* lines 256-259: _smart_normalize_weights on the shared vector, and the
\* learning_updates counter
TrackNormalize(t) ==
  LET call == track_calls[t]
      bd == call.behavior_data
      updated == SmartNormalizeWeights(user_preferences_cache[bd.user_id],
                                       bd.news_category, call.update.adjustment)
  IN  /\ call.pc = "written"
      /\ user_preferences_cache' =
           [user_preferences_cache EXCEPT ![bd.user_id] = updated]
      /\ system_stats' = [system_stats EXCEPT !.learning_updates = @ + 1]
      /\ track_calls' =
           [track_calls EXCEPT ![t].pc = "updated",
              ![t].update.new_weight = updated[bd.news_category]]
      /\ UNCHANGED <<test_mode, user_behaviors_cache, anomaly_detection,
                     db_behaviors, now, ncalls, lastEvent, lastResult, returned>>
      /\ UNCHANGED engineVars

\* lines 165-180: _cleanup_old_data, _update_statistics, the confidence and
\* the result
TrackReturn(t) ==
  LET call == track_calls[t]
      bd == call.behavior_data
      cache2 == CleanupOldData(user_behaviors_cache, bd.user_id)
      result == [success |-> TRUE, error |-> "none",
                 enhanced_action |-> bd.action,
                 engagement_score |-> bd.engagement_score,
                 learning_update |-> call.update,
                 user_confidence |-> CalculateUserConfidence(cache2, bd.user_id)]
  IN  /\ call.pc = "updated"
      /\ user_behaviors_cache' = cache2
      /\ system_stats' = UpdateStatistics(system_stats, cache2, bd)
      /\ track_calls' = [track_calls EXCEPT ![t].pc = "returned", ![t].result = result]
      /\ lastEvent' = call.event
      /\ lastResult' = result
      /\ UNCHANGED <<test_mode, user_preferences_cache, anomaly_detection,
                     db_behaviors, now, ncalls, returned>>
      /\ UNCHANGED engineVars

----------------------------------------------------------------------------
(* The clock at construction, and the empty dict *)

StartTime == 100 * MinutesPerDay + 10 * MinutesPerHour

EmptyMap == [u \in {} |-> 0]

----------------------------------------------------------------------------
(* Lists as the recommendation engine uses them *)

\* the place of a category name in the order of sorted()
AlphabeticalOrder ==
  <<"ai_ml", "consumer_tech", "enterprise_saas", "hardware_chips",
    "programming", "social_media", "startup_venture", "web3_crypto">>

AlphabeticalRank(category) ==
  CHOOSE i \in 1..Len(AlphabeticalOrder) : AlphabeticalOrder[i] = category

\* the sort keys the engine uses: key=lambda x: x[key], and the string
\* itself for a list of category names
SortKey(x, key) ==
  CASE key = "personalized_score" -> x.personalized_score
    [] key = "hot_score" -> x.hot_score
    [] key = "timestamp" -> x.timestamp
    [] key = "name" -> AlphabeticalRank(x)

\* list.sort(key=..., reverse=True) and sorted(..., reverse=True): highest
\* key first, equal keys keep their order
SortDescBy(s, key) ==
  LET n == Len(s)
      k == [i \in 1..n |-> SortKey(s[i], key)]
      pos == [i \in 1..n |->
                Cardinality({j \in 1..n : k[j] > k[i] \/ (k[j] = k[i] /\ j < i)}) + 1]
  IN  IF n = 0 THEN <<>>
      ELSE [p \in 1..n |-> s[CHOOSE i \in 1..n : pos[i] = p]]

\* sorted(...): lowest key first, equal keys keep their order
SortAscBy(s, key) ==
  LET n == Len(s)
      k == [i \in 1..n |-> SortKey(s[i], key)]
      pos == [i \in 1..n |->
                Cardinality({j \in 1..n : k[j] < k[i] \/ (k[j] = k[i] /\ j < i)}) + 1]
  IN  IF n = 0 THEN <<>>
      ELSE [p \in 1..n |-> s[CHOOSE i \in 1..n : pos[i] = p]]

\* s[:n] for n >= 0
Take(s, n) == SubSeq(s, 1, Min(n, Len(s)))

\* x in s
InList(x, s) == \E i \in 1..Len(s) : s[i] = x

\* a filter that lets everything through
NotIn_Everything(s, t) == s

\* [x for x in s if x not in t]
NotIn(s, t) == SelectSeq(s, LAMBDA x : ~InList(x, t))

\* how many items of s are of the category
CountCategory(s, category) ==
  Cardinality({i \in 1..Len(s) : s[i].category = category})

\* set(item["id"] for item in s)
IdSet(s) == {s[i].id : i \in 1..Len(s)}

----------------------------------------------------------------------------
(* Configuration of CachedRecommendationEngine.__init__ *)

NewsTTL == 30
RecommendationTTL == 10
ScoreTTL == 5
CacheCapacity == 100
EvictCount == 20

\* len(interest_categories[category]): the keywords of each category
KeywordCount(category) ==
  CASE category = "ai_ml" -> 10
    [] category = "startup_venture" -> 10
    [] category = "web3_crypto" -> 9
    [] category = "programming" -> 9
    [] category = "hardware_chips" -> 9
    [] category = "consumer_tech" -> 8
    [] category = "enterprise_saas" -> 10
    [] category = "social_media" -> 10
    [] OTHER -> 0

\* related_categories.get(category1, [])
RelatedCategories(category1) ==
  CASE category1 = "ai_ml" -> {"programming", "hardware_chips"}
    [] category1 = "programming" -> {"ai_ml", "hardware_chips"}
    [] category1 = "startup_venture" -> {"ai_ml", "web3_crypto", "consumer_tech"}
    [] category1 = "web3_crypto" -> {"startup_venture", "programming"}
    [] category1 = "hardware_chips" -> {"ai_ml", "programming", "consumer_tech"}
    [] category1 = "consumer_tech" -> {"ai_ml", "hardware_chips", "startup_venture"}
    [] OTHER -> {}

IsRelatedCategory(category1, category2) ==
  category2 \in RelatedCategories(category1)

IsAnyRelatedCategory(category, user_interests) ==
  \E i \in 1..Len(user_interests) :
    IsRelatedCategory(category, user_interests[i])

\* _generate_cache_key: the md5 of the JSON text of the profile, keys
\* sorted.  Two profiles get the same key when their sorted interests,
\* their weights and (for "rec") their limits are equal; the key is that
\* triple, so the 48 bits of the digest are taken not to collide.
GenerateCacheKey(prefix, user_interests, user_weights, limit) ==
  <<prefix, SortAscBy(user_interests, "name"), user_weights, limit>>

NoLimit == 0

RecKey(user_interests, user_weights, limit) ==
  GenerateCacheKey("rec", user_interests, user_weights, limit)

ScoreKey(user_interests, user_weights) ==
  GenerateCacheKey("scores", user_interests, user_weights, NoLimit)

NewsKey == <<"news_data_all">>

----------------------------------------------------------------------------
(* The three cache tables: a dict is the list of its entries in insertion  *)
(* order, each entry a key with its data and the time it was stored.       *)

HasKey(cache_dict, key) == \E i \in 1..Len(cache_dict) : cache_dict[i].key = key

EntryOf(cache_dict, key) ==
  cache_dict[CHOOSE i \in 1..Len(cache_dict) : cache_dict[i].key = key]

IsCacheValid_Never(cache_entry, ttl, current_time) == FALSE

\* an _is_cache_valid that still accepts an entry at the age of the TTL
IsCacheValid_Inclusive(cache_entry, ttl, current_time) ==
  (current_time - cache_entry.timestamp) <= ttl

\* _is_cache_valid
IsCacheValid(cache_entry, ttl, current_time) ==
  (current_time - cache_entry.timestamp) < ttl

\* key in cache_dict and _is_cache_valid(cache_dict[key], ttl)
ValidHit(cache_dict, key, ttl, current_time) ==
  /\ HasKey(cache_dict, key)
  /\ IsCacheValid(EntryOf(cache_dict, key), ttl, current_time)

\* cache_dict[key] = {...}: an existing key keeps its place in the dict
PutEntry(cache_dict, key, value, current_time) ==
  LET entry == [key |-> key, data |-> value, timestamp |-> current_time]
  IN  IF HasKey(cache_dict, key)
      THEN [i \in 1..Len(cache_dict) |->
              IF cache_dict[i].key = key THEN entry ELSE cache_dict[i]]
      ELSE Append(cache_dict, entry)

\* how many entries come before entry i in
\* sorted(cache_dict.keys(), key=lambda k: cache_dict[k]["timestamp"]):
\* the entries stored earlier, and those before it in the dict among the
\* entries stored at the same time
OlderThan(cache_dict, i) ==
  Cardinality({j \in 1..Len(cache_dict) :
                 \/ cache_dict[j].timestamp < cache_dict[i].timestamp
                 \/ (cache_dict[j].timestamp = cache_dict[i].timestamp /\ j < i)})

\* sorted(cache_dict.keys(), key=...)[:n]
OldestKeys(cache_dict, n) ==
  LET first == {i \in 1..Len(cache_dict) : OlderThan(cache_dict, i) < n}
  IN  [p \in 1..Cardinality(first) |->
         cache_dict[CHOOSE i \in first : OlderThan(cache_dict, i) = p - 1].key]

\* a _set_cache that stores and never deletes
SetCache_NoEviction(cache_dict, key, value, current_time) ==
  PutEntry(cache_dict, key, value, current_time)

\* _set_cache: store, and past 100 entries delete the 20 oldest
SetCache(cache_dict, key, value, current_time) ==
  LET stored == PutEntry(cache_dict, key, value, current_time)
      old_keys == SeqToSet(OldestKeys(stored, EvictCount))
  IN  IF Len(stored) > CacheCapacity
      THEN SelectSeq(stored, LAMBDA e : e.key \notin old_keys)
      ELSE stored

----------------------------------------------------------------------------
(* Scoring *)

\* a news item; of its title and summary is kept, per category, how many
\* of the category's keywords occur in them
NewsItem(id, category, hot_score, publish_time, keyword_hits) ==
  [id |-> id, category |-> category, hot_score |-> hot_score,
   publish_time |-> publish_time, keyword_hits |-> keyword_hits]

\* news.copy() with news_copy["personalized_score"] set
ScoredItem(news, score) ==
  [id |-> news.id, category |-> news.category, hot_score |-> news.hot_score,
   publish_time |-> news.publish_time, keyword_hits |-> news.keyword_hits,
   personalized_score |-> score]

\* user_weights.get(category, 0)
WeightGet(user_weights, category) ==
  IF category \in DOMAIN user_weights THEN user_weights[category] ELSE 0

\* _calculate_category_score
CalculateCategoryScore(news, user_interests, user_weights) ==
  IF InList(news.category, user_interests)
  THEN WeightGet(user_weights, news.category) * 5
  ELSE SumSeq([i \in 1..Len(user_interests) |->
                 IF IsRelatedCategory(news.category, user_interests[i])
                 THEN WeightGet(user_weights, user_interests[i]) * 2
                 ELSE 0])

\* _calculate_keyword_score
CalculateKeywordScore(news, user_interests) ==
  LET user_keywords ==
        SumSeq([i \in 1..Len(user_interests) |-> KeywordCount(user_interests[i])])
      matches ==
        SumSeq([i \in 1..Len(user_interests) |->
                  WeightGet(news.keyword_hits, user_interests[i])])
  IN  IF user_keywords = 0 THEN 0
      ELSE Min(DivS(matches, user_keywords), One)

\* _calculate_time_score
CalculateTimeScore(publish_time, current_time) ==
  LET minutes_diff == current_time - publish_time
  IN  IF publish_time = BadTimestamp THEN One \div 2
      ELSE IF minutes_diff <= 24 * MinutesPerHour THEN One
      ELSE IF minutes_diff <= 48 * MinutesPerHour THEN 8 * (One \div 10)
      ELSE IF minutes_diff <= 72 * MinutesPerHour THEN 6 * (One \div 10)
      ELSE 4 * (One \div 10)

\* calculate_personalized_score
CalculatePersonalizedScore(news, user_interests, user_weights, current_time) ==
  IF user_interests = <<>> \/ DOMAIN user_weights = {} THEN 0
  ELSE   4 * (CalculateCategoryScore(news, user_interests, user_weights) \div 10)
       + 3 * (CalculateKeywordScore(news, user_interests) \div 10)
       + 2 * (news.hot_score \div 10)
       + CalculateTimeScore(news.publish_time, current_time) \div 10

RelevanceThreshold == One \div 10

\* round(score, 3)
Round3(score) == ((score + 500) \div 1000) * 1000

\* the scoring pass of get_cached_personalized_scores
ComputeScores(news_list, user_interests, user_weights, current_time) ==
  LET Score(news) ==
        CalculatePersonalizedScore(news, user_interests, user_weights, current_time)
      kept == SelectSeq(news_list, LAMBDA news : Score(news) > RelevanceThreshold)
  IN  [i \in 1..Len(kept) |-> ScoredItem(kept[i], Round3(Score(kept[i])))]

\* get_cached_personalized_scores: what it returns, the score cache it
\* leaves, and whether it ran the scoring pass
GetCachedPersonalizedScores(cache_dict, news_list, user_interests, user_weights, current_time) ==
  LET cache_key == ScoreKey(user_interests, user_weights)
      scored_news == ComputeScores(news_list, user_interests, user_weights,
                                   current_time)
  IN  IF /\ ValidHit(cache_dict, cache_key, ScoreTTL, current_time)
         /\ IdSet(EntryOf(cache_dict, cache_key).data) = IdSet(news_list)
      THEN [result |-> EntryOf(cache_dict, cache_key).data,
            cache |-> cache_dict, computed |-> FALSE]
      ELSE [result |-> scored_news,
            cache |-> SetCache(cache_dict, cache_key, scored_news, current_time),
            computed |-> TRUE]

----------------------------------------------------------------------------
(* Diversity control *)

\* the loop of _select_balanced_news over user_interests[k..]
RECURSIVE BalancedFrom(_, _, _, _)
BalancedFrom(news_list, user_interests, slots_per_category, k) ==
  IF k > Len(user_interests) THEN <<>>
  ELSE LET group == SelectSeq(news_list,
                      LAMBDA news : news.category = user_interests[k])
           category_news == SortDescBy(group, "personalized_score")
       IN  Take(category_news, slots_per_category)
           \o BalancedFrom(news_list, user_interests, slots_per_category, k + 1)

\* _select_balanced_news
SelectBalancedNews(news_list, user_interests, total_slots) ==
  IF news_list = <<>> \/ user_interests = <<>> \/ total_slots <= 0 THEN <<>>
  ELSE
    LET slots_per_category == Max(1, total_slots \div Len(user_interests))
        balanced_news == BalancedFrom(news_list, user_interests,
                                      slots_per_category, 1)
        all_remaining == SortDescBy(NotIn(news_list, balanced_news),
                                    "personalized_score")
    IN  IF Len(balanced_news) < total_slots
        THEN balanced_news \o Take(all_remaining, total_slots - Len(balanced_news))
        ELSE balanced_news

InterleaveRecommendations_Skipped(recommendations) == recommendations

\* _interleave_recommendations: one item of each category in turn, the
\* categories in the order of their first item
InterleaveRecommendations(recommendations) ==
  LET n == Len(recommendations)
      cat(i) == recommendations[i].category
      round == [i \in 1..n |-> Cardinality({j \in 1..(i - 1) : cat(j) = cat(i)})]
      first == [i \in 1..n |-> CHOOSE j \in 1..i :
                                 /\ cat(j) = cat(i)
                                 /\ \A h \in 1..(j - 1) : cat(h) # cat(i)]
      pos == [i \in 1..n |->
                Cardinality({j \in 1..n : \/ round[j] < round[i]
                                          \/ round[j] = round[i] /\ first[j] < first[i]}) + 1]
  IN  IF n <= 3 THEN recommendations
      ELSE IF Cardinality({cat(i) : i \in 1..n}) <= 1 THEN recommendations
      ELSE [k \in 1..n |-> recommendations[CHOOSE i \in 1..n : pos[i] = k]]

\* int(limit * 0.7), int(limit * 0.2)
UserInterestSlots(limit) == (limit * 7) \div 10
RelatedSlots(limit) == (limit * 2) \div 10

\* _apply_diversity_control up to the backfill: what the three buckets
\* give, the interest bucket first
BucketSelection(scored_news, user_interests, limit) ==
  LET user_interest_slots == UserInterestSlots(limit)
      related_slots == RelatedSlots(limit)
      exploration_slots == limit - user_interest_slots - related_slots
      user_interest_news ==
        SelectSeq(scored_news, LAMBDA news : InList(news.category, user_interests))
      related_news ==
        SelectSeq(scored_news, LAMBDA news :
          /\ ~InList(news.category, user_interests)
          /\ IsAnyRelatedCategory(news.category, user_interests))
      exploration_news ==
        SelectSeq(scored_news, LAMBDA news :
          /\ ~InList(news.category, user_interests)
          /\ ~IsAnyRelatedCategory(news.category, user_interests))
  IN  [interest |-> SelectBalancedNews(user_interest_news, user_interests,
                                       user_interest_slots),
       related |-> Take(related_news, related_slots),
       exploration |-> Take(SortDescBy(exploration_news, "hot_score"),
                            exploration_slots),
       related_left |-> Len(related_news),
       exploration_left |-> Len(exploration_news)]

\* a diversity control that serves one item at the least
ApplyDiversityControl_AtLeastOne(scored_news, user_interests, limit) ==
  Take(scored_news, Max(limit, 1))

\* _apply_diversity_control
ApplyDiversityControl(scored_news, user_interests, limit) ==
  IF scored_news = <<>> \/ limit <= 0 THEN <<>>
  ELSE
    LET user_interest_slots == UserInterestSlots(limit)
        related_slots == RelatedSlots(limit)
        exploration_slots == limit - user_interest_slots - related_slots
        user_interest_news ==
          SelectSeq(scored_news, LAMBDA news : InList(news.category, user_interests))
        related_news ==
          SelectSeq(scored_news, LAMBDA news :
            /\ ~InList(news.category, user_interests)
            /\ IsAnyRelatedCategory(news.category, user_interests))
        exploration_news ==
          SelectSeq(scored_news, LAMBDA news :
            /\ ~InList(news.category, user_interests)
            /\ ~IsAnyRelatedCategory(news.category, user_interests))
        picked ==
          SelectBalancedNews(user_interest_news, user_interests, user_interest_slots)
          \o Take(related_news, related_slots)
          \o Take(SortDescBy(exploration_news, "hot_score"), exploration_slots)
        diverse_recommendations ==
          IF Len(picked) < limit
          THEN picked \o Take(NotIn(scored_news, picked), limit - Len(picked))
          ELSE picked
    IN  Take(InterleaveRecommendations(diverse_recommendations), limit)

----------------------------------------------------------------------------
(* The content source behind the data adapter *)

FeedRows == 10

FeedCategories(feed) ==
  CASE feed = "feedA" -> <<"ai_ml", "web3_crypto", "social_media">>
    [] feed = "feedB" -> <<"ai_ml", "programming", "web3_crypto">>
    [] OTHER -> <<>>

\* what _process_events_data makes of the feed on the fetch numbered gen:
\* every fetch gives its items new ids (uuid4), the list is sorted by
\* hot_score, highest first
ProcessedFeed(feed, gen, current_time) ==
  LET cats == FeedCategories(feed)
      row(k) == (k - 1) \div Len(cats)
      cat(k) == cats[((k - 1) % Len(cats)) + 1]
  IN  [k \in 1..(FeedRows * Len(cats)) |->
         NewsItem(<<gen, k>>, cat(k), 900000 - 50000 * row(k),
                  current_time - (1 + 6 * row(k)) * MinutesPerHour,
                  IF k % 2 = 0 THEN cat(k) :> 1 ELSE EmptyMap)]

MockPublishTime == StartTime - 30 * MinutesPerDay

\* DataAdapter.get_mock_data
MockData ==
  << NewsItem("mock_event_1", "ai_ml", 950000, MockPublishTime, "ai_ml" :> 2),
     NewsItem("mock_event_2", "startup_venture", 820000, MockPublishTime, EmptyMap),
     NewsItem("mock_event_3", "programming", 760000, MockPublishTime,
              "programming" :> 1),
     NewsItem("mock_event_4", "web3_crypto", 880000, MockPublishTime,
              "web3_crypto" :> 1),
     NewsItem("mock_event_5", "hardware_chips", 790000, MockPublishTime,
              ("hardware_chips" :> 2) @@ ("consumer_tech" :> 1)) >>

\* DataAdapter.get_news_data: the processed feed, the mock data when the
\* source cannot be reached
GetNewsData(src, gen, current_time) ==
  IF src = "down" THEN MockData ELSE ProcessedFeed(src, gen, current_time)

\* get_cached_news_data without its _set_cache
GetCachedNewsData_NotStored(cache_dict, stats, src, gen, current_time) ==
  LET fetched == GetNewsData(src, gen, current_time)
  IN  IF ValidHit(cache_dict, NewsKey, NewsTTL, current_time)
      THEN [data |-> EntryOf(cache_dict, NewsKey).data,
            cache |-> cache_dict,
            stats |-> [stats EXCEPT !.news_hits = @ + 1],
            fetched |-> FALSE]
      ELSE [data |-> fetched,
            cache |-> cache_dict,
            stats |-> [stats EXCEPT !.news_misses = @ + 1],
            fetched |-> TRUE]

\* get_cached_news_data: the list it returns, the news cache and the
\* counters it leaves, and whether it went to the source
GetCachedNewsData(cache_dict, stats, src, gen, current_time) ==
  LET fetched == GetNewsData(src, gen, current_time)
      news_data == IF fetched = <<>> THEN MockData ELSE fetched
  IN  IF ValidHit(cache_dict, NewsKey, NewsTTL, current_time)
      THEN [data |-> EntryOf(cache_dict, NewsKey).data,
            cache |-> cache_dict,
            stats |-> [stats EXCEPT !.news_hits = @ + 1],
            fetched |-> FALSE]
      ELSE [data |-> news_data,
            cache |-> SetCache(cache_dict, NewsKey, news_data, current_time),
            stats |-> [stats EXCEPT !.news_misses = @ + 1],
            fetched |-> TRUE]

----------------------------------------------------------------------------
(* The calls on the recommendation engine *)

NoCall ==
  [op |-> "none", interests |-> <<>>, weights |-> EmptyMap, limit |-> NoLimit,
   candidates |-> <<>>, result |-> <<>>, hit |-> FALSE, time |-> StartTime,
   stored_at |-> StartTime]

\* scored_news.sort(...) in recommend_for_user sorts the list in place, and
\* that list is the one the score cache holds
SortCachedScores(cache_dict, key, sorted) ==
  [i \in 1..Len(cache_dict) |->
     IF cache_dict[i].key = key
     THEN [cache_dict[i] EXCEPT !.data = sorted]
     ELSE cache_dict[i]]

\* recommend_for_user
Rank(user_id, user_interests, user_weights, limit) ==
  LET rec_cache_key == RecKey(user_interests, user_weights, limit)
      counted == [cache_stats EXCEPT !.total_requests = @ + 1]
      news == GetCachedNewsData(news_cache,
                [counted EXCEPT !.recommendation_misses = @ + 1],
                source, work.fetches, now)
      scores == GetCachedPersonalizedScores(score_cache, news.data,
                  user_interests, user_weights, now)
      scored_news == SortDescBy(scores.result, "personalized_score")
      diverse_news == ApplyDiversityControl(scored_news, user_interests, limit)
      call == [NoCall EXCEPT !.op = "rank", !.interests = user_interests,
                             !.weights = user_weights, !.limit = limit,
                             !.time = now]
  IN  /\ ncalls' = ncalls + 1
      /\ UNCHANGED <<learnVars, now, source, cache_calls>>
      /\ IF ValidHit(recommendation_cache, rec_cache_key, RecommendationTTL, now)
         THEN
           /\ cache_stats' = [counted EXCEPT !.recommendation_hits = @ + 1]
           /\ lastCall' =
                [call EXCEPT
                   !.result = EntryOf(recommendation_cache, rec_cache_key).data,
                   !.hit = TRUE,
                   !.stored_at = EntryOf(recommendation_cache, rec_cache_key).timestamp]
           /\ UNCHANGED <<news_cache, recommendation_cache, score_cache, work>>
         ELSE
           /\ cache_stats' = news.stats
           /\ news_cache' = news.cache
           /\ score_cache' =
                SortCachedScores(scores.cache,
                                 ScoreKey(user_interests, user_weights),
                                 scored_news)
           /\ recommendation_cache' =
                SetCache(recommendation_cache, rec_cache_key, diverse_news, now)
           /\ work' = [fetches |-> work.fetches + (IF news.fetched THEN 1 ELSE 0),
                       scoring_passes |-> work.scoring_passes
                                          + (IF scores.computed THEN 1 ELSE 0)]
           /\ lastCall' = [call EXCEPT !.result = diverse_news, !.stored_at = now]

\* a direct call of get_cached_personalized_scores
Score(news_list, user_interests, user_weights) ==
  LET scores == GetCachedPersonalizedScores(score_cache, news_list,
                  user_interests, user_weights, now)
  IN  /\ ncalls' = ncalls + 1
      /\ score_cache' = scores.cache
      /\ work' = [work EXCEPT !.scoring_passes =
                                 @ + (IF scores.computed THEN 1 ELSE 0)]
      /\ lastCall' = [NoCall EXCEPT !.op = "score", !.interests = user_interests,
                                    !.weights = user_weights,
                                    !.candidates = news_list,
                                    !.result = scores.result,
                                    !.hit = ~scores.computed, !.time = now,
                                    !.stored_at = now]
      /\ UNCHANGED <<learnVars, now, source, news_cache, recommendation_cache,
                     cache_stats, cache_calls>>

\* a direct call of get_cached_news_data
GetCandidates ==
  LET news == GetCachedNewsData(news_cache, cache_stats, source, work.fetches, now)
  IN  /\ ncalls' = ncalls + 1
      /\ news_cache' = news.cache
      /\ cache_stats' = news.stats
      /\ work' = [work EXCEPT !.fetches = @ + (IF news.fetched THEN 1 ELSE 0)]
      /\ lastCall' = [NoCall EXCEPT !.op = "candidates", !.result = news.data,
                                    !.hit = ~news.fetched, !.time = now,
                                    !.stored_at = now]
      /\ UNCHANGED <<learnVars, now, source, recommendation_cache, score_cache,
                     cache_calls>>

\* clear_cache
ClearCache(cache_type) ==
  /\ ncalls' = ncalls + 1
  /\ news_cache' = IF cache_type \in {"all", "news"} THEN <<>> ELSE news_cache
  /\ recommendation_cache' =
       IF cache_type \in {"all", "recommendations"} THEN <<>>
       ELSE recommendation_cache
  /\ score_cache' = IF cache_type \in {"all", "scores"} THEN <<>> ELSE score_cache
  /\ lastCall' = [NoCall EXCEPT !.op = "clear", !.time = now, !.stored_at = now]
  /\ UNCHANGED <<learnVars, now, source, cache_stats, work, cache_calls>>

\* time passes
Tick(minutes) ==
  /\ ncalls' = ncalls + 1
  /\ now' = now + minutes
  /\ UNCHANGED <<learnVars, engineVars>>

\* the content source goes down, comes back, or changes what it serves
SourceChange(src) ==
  /\ src # source
  /\ ncalls' = ncalls + 1
  /\ source' = src
  /\ UNCHANGED <<learnVars, now, news_cache, recommendation_cache, score_cache,
                 cache_stats, work, lastCall, cache_calls>>

----------------------------------------------------------------------------
(* recommend_for_user called from several threads on one engine.  The     *)
(* engine takes no lock; the steps below are the statements of            *)
(* recommend_for_user and _set_cache that read or write the               *)
(* recommendation cache, and a thread may be descheduled between them.    *)

IdleRank ==
  [pc |-> "idle", key |-> <<>>, interests |-> <<>>, weights |-> EmptyMap,
   limit |-> NoLimit, result |-> <<>>, old_keys |-> <<>>, error |-> "none"]

NoCacheCalls == [t \in Threads |-> IdleRank]

\* lines 161-174: the request is counted, the key is built and
\* `rec_cache_key in self.recommendation_cache` is evaluated
RankLookup(t, user_interests, user_weights, limit) ==
  LET rec_cache_key == RecKey(user_interests, user_weights, limit)
      found == HasKey(recommendation_cache, rec_cache_key)
      call == [IdleRank EXCEPT !.key = rec_cache_key,
                               !.interests = user_interests,
                               !.weights = user_weights, !.limit = limit]
  IN  /\ cache_calls[t].pc \in {"idle", "returned", "failed"}
      /\ ncalls' = ncalls + 1
      /\ cache_calls' =
           [cache_calls EXCEPT ![t] =
              [call EXCEPT !.pc = IF found THEN "found" ELSE "miss"]]
      /\ cache_stats' =
           [cache_stats EXCEPT
              !.total_requests = @ + 1,
              !.recommendation_misses = @ + (IF found THEN 0 ELSE 1)]
      /\ UNCHANGED <<learnVars, now, source, news_cache, recommendation_cache,
                     score_cache, work, lastCall>>

\* lines 175-181: cache_entry = self.recommendation_cache[rec_cache_key],
\* which raises KeyError when the key has gone since the test, and the
\* return of a valid entry's data
RankReadEntry(t) ==
  LET call == cache_calls[t]
      present == HasKey(recommendation_cache, call.key)
      valid == IsCacheValid(EntryOf(recommendation_cache, call.key),
                            RecommendationTTL, now)
  IN  /\ call.pc = "found"
      /\ cache_calls' =
           IF ~present
           THEN [cache_calls EXCEPT ![t].pc = "failed", ![t].error = "KeyError"]
           ELSE IF valid
           THEN [cache_calls EXCEPT ![t].pc = "returned",
                   ![t].result = EntryOf(recommendation_cache, call.key).data]
           ELSE [cache_calls EXCEPT ![t].pc = "miss"]
      /\ cache_stats' =
           IF ~present THEN cache_stats
           ELSE IF valid
           THEN [cache_stats EXCEPT !.recommendation_hits = @ + 1]
           ELSE [cache_stats EXCEPT !.recommendation_misses = @ + 1]
      /\ UNCHANGED <<learnVars, now, ncalls, source, news_cache,
                     recommendation_cache, score_cache, work, lastCall>>

\* lines 186-195: candidates, scores, the sort and the diversity control
RankCompute(t) ==
  LET call == cache_calls[t]
      news == GetCachedNewsData(news_cache, cache_stats, source, work.fetches, now)
      scores == GetCachedPersonalizedScores(score_cache, news.data,
                  call.interests, call.weights, now)
      scored_news == SortDescBy(scores.result, "personalized_score")
      diverse_news == ApplyDiversityControl(scored_news, call.interests, call.limit)
  IN  /\ call.pc = "miss"
      /\ cache_stats' = news.stats
      /\ news_cache' = news.cache
      /\ score_cache' =
           SortCachedScores(scores.cache, ScoreKey(call.interests, call.weights),
                            scored_news)
      /\ work' = [fetches |-> work.fetches + (IF news.fetched THEN 1 ELSE 0),
                  scoring_passes |-> work.scoring_passes
                                     + (IF scores.computed THEN 1 ELSE 0)]
      /\ cache_calls' = [cache_calls EXCEPT ![t].pc = "computed",
                                            ![t].result = diverse_news]
      /\ UNCHANGED <<learnVars, now, ncalls, source, recommendation_cache, lastCall>>

\* _set_cache lines 73-82: the entry is stored and, past 100 entries, the
\* keys of the 20 oldest are listed
RankStore(t) ==
  LET call == cache_calls[t]
      stored == PutEntry(recommendation_cache, call.key, call.result, now)
  IN  /\ call.pc = "computed"
      /\ recommendation_cache' = stored
      /\ cache_calls' =
           IF Len(stored) > CacheCapacity
           THEN [cache_calls EXCEPT ![t].pc = "evicting",
                   ![t].old_keys = OldestKeys(stored, EvictCount)]
           ELSE [cache_calls EXCEPT ![t].pc = "returned"]
      /\ UNCHANGED <<learnVars, now, ncalls, source, news_cache, score_cache,
                     cache_stats, work, lastCall>>

\* the keys `for old_key in old_keys: del cache_dict[old_key]` deletes before
\* it meets one that is no longer there
DeletableKeys(cache_dict, old_keys) ==
  LET missing == {i \in 1..Len(old_keys) : ~HasKey(cache_dict, old_keys[i])}
      upto == IF missing = {} THEN Len(old_keys)
              ELSE (CHOOSE i \in missing : \A j \in missing : i <= j) - 1
  IN  [keys |-> {old_keys[i] : i \in 1..upto}, complete |-> missing = {}]

\* _set_cache lines 83-84: the deletions, taken as one step; del raises
\* KeyError on a key another call has deleted already
RankEvict(t) ==
  LET call == cache_calls[t]
      deletable == DeletableKeys(recommendation_cache, call.old_keys)
  IN  /\ call.pc = "evicting"
      /\ recommendation_cache' =
           SelectSeq(recommendation_cache, LAMBDA e : e.key \notin deletable.keys)
      /\ cache_calls' =
           IF deletable.complete
           THEN [cache_calls EXCEPT ![t].pc = "returned"]
           ELSE [cache_calls EXCEPT ![t].pc = "failed", ![t].error = "KeyError"]
      /\ UNCHANGED <<learnVars, now, ncalls, source, news_cache, score_cache,
                     cache_stats, work, lastCall>>

----------------------------------------------------------------------------
(* Initial state: a fresh engine over an empty database *)

InitEngine ==
  /\ source \in {"feedA", "feedB", "down"}
  /\ news_cache = <<>>
  /\ recommendation_cache = <<>>
  /\ score_cache = <<>>
  /\ cache_stats = [news_hits |-> 0, news_misses |-> 0,
                    recommendation_hits |-> 0, recommendation_misses |-> 0,
                    total_requests |-> 0]
  /\ work = [fetches |-> 0, scoring_passes |-> 0]
  /\ lastCall = NoCall
  /\ cache_calls = NoCacheCalls


InitLearn ==
  /\ test_mode \in BOOLEAN
  /\ user_behaviors_cache = EmptyMap
  /\ user_preferences_cache = EmptyMap
  /\ anomaly_detection = EmptyMap
  /\ system_stats = [total_behaviors |-> 0, total_users |-> 0,
                     learning_updates |-> 0, anomalies_detected |-> 0,
                     cache_hits |-> 0, cache_misses |-> 0]
  /\ db_behaviors = <<>>
  /\ now = StartTime
  /\ ncalls = 0
  /\ lastEvent = NoEvent
  /\ lastResult = NoResult
  /\ returned = NoReturned
  /\ track_calls = NoTrackCalls
  /\ InitEngine

----------------------------------------------------------------------------
(* Tracking with a mix of events: two users, known and unknown categories, *)
(* positive and negative actions, present, old, future and unparsable      *)
(* timestamps, a database that may refuse the row.                         *)

MaxTrackCalls == 4

Event(u, a, c, d, s, t) ==
  [user_id |-> u, action |-> a, news_category |-> c, reading_duration |-> d,
   scroll_percentage |-> s, timestamp |-> t]

FutureTime == StartTime + 60 * MinutesPerDay
OldTime == StartTime - 31 * MinutesPerDay

TrackEvents ==
  { Event("u1", "share", "ai_ml", 30, 90, FutureTime),
    Event("u1", "share", "startup_venture", 30, 90, FutureTime),
    Event("u1", "share", "web3_crypto", 30, 90, FutureTime),
    Event("u1", "dislike", "ai_ml", 0, 0, StartTime),
    Event("u1", "read", "ai_ml", 200, 90, StartTime),
    Event("u1", "read", "programming", 10, 10, OldTime),
    Event("u1", "share", "sports", 30, 50, StartTime),
    Event("u1", "click", "ai_ml", 3, 0, BadTimestamp),
    Event("u2", "like", "programming", 30, 50, StartTime),
    Event("u2", "report", "ai_ml", 0, 50, StartTime + 2 * MinutesPerHour) }

NextTrack ==
  \E ev \in TrackEvents, dbOk \in BOOLEAN :
    /\ ncalls < MaxTrackCalls
    /\ Track(ev, dbOk)

SpecTrack == InitLearn /\ [][NextTrack]_vars

----------------------------------------------------------------------------
(* A burst of identical events of one user inside one anomaly window *)

MaxBurstCalls == 1002

BurstEvent == Event("u1", "read", "ai_ml", 200, 90, StartTime)

NextBurst ==
  /\ ncalls < MaxBurstCalls
  /\ Track(BurstEvent, TRUE)

SpecBurst == InitLearn /\ [][NextBurst]_vars

----------------------------------------------------------------------------
(* Recommendation requests against a source that changes, with time        *)
(* passing between the calls                                               *)

MaxRankCalls == 3

\* a profile with one dominant category at the ceiling weight
DominantWeights(category) ==
  [c \in Categories |-> IF c = category THEN MaxWeight ELSE 78571]

RankInputs ==
  { [user_id |-> "u1", interests |-> <<"ai_ml">>,
     weights |-> DominantWeights("ai_ml"), limit |-> 10],
    [user_id |-> "u2", interests |-> <<"social_media">>,
     weights |-> DominantWeights("social_media"), limit |-> 10],
    [user_id |-> "u1", interests |-> <<"programming", "ai_ml">>,
     weights |-> DominantWeights("programming"), limit |-> 10],
    [user_id |-> "u2", interests |-> <<"ai_ml", "programming">>,
     weights |-> DominantWeights("programming"), limit |-> 3] }

Sources == {"feedA", "feedB", "down"}

TickSteps == {4, 7, 30}

InitRank == InitLearn /\ test_mode = TRUE

NextRank ==
  /\ ncalls < MaxRankCalls
  /\ \/ \E req \in RankInputs :
          Rank(req.user_id, req.interests, req.weights, req.limit)
     \/ GetCandidates
     \/ \E cache_type \in {"all", "recommendations"} : ClearCache(cache_type)
     \/ \E minutes \in TickSteps : Tick(minutes)
     \/ \E src \in Sources : SourceChange(src)

SpecRank == InitRank /\ [][NextRank]_vars

----------------------------------------------------------------------------
(* Direct scoring calls over candidate lists that change between calls     *)

MaxScoreCalls == 4

\* the second list drops the item the first scored under the threshold
\* and carries a changed hot_score, the third replaces an item
ScoreLists ==
  LET old == StartTime - 5 * MinutesPerDay
      recent == StartTime - MinutesPerHour
  IN  { << NewsItem("n1", "ai_ml", 900000, recent, EmptyMap),
           NewsItem("n2", "ai_ml", 800000, recent, EmptyMap),
           NewsItem("n3", "web3_crypto", 200000, old, EmptyMap) >>,
        << NewsItem("n1", "ai_ml", 500000, recent, EmptyMap),
           NewsItem("n2", "ai_ml", 800000, recent, EmptyMap) >>,
        << NewsItem("n1", "ai_ml", 500000, recent, EmptyMap),
           NewsItem("n4", "ai_ml", 800000, recent, EmptyMap) >> }

ScoreProfiles ==
  { [interests |-> <<"ai_ml">>, weights |-> DominantWeights("ai_ml")],
    [interests |-> <<"web3_crypto", "ai_ml">>,
     weights |-> DominantWeights("web3_crypto")] }

InitScore == InitLearn /\ test_mode = TRUE /\ source = "down"

NextScore ==
  /\ ncalls < MaxScoreCalls
  /\ \/ \E news_list \in ScoreLists, profile \in ScoreProfiles :
          Score(news_list, profile.interests, profile.weights)
     \/ ClearCache("scores")
     \/ \E minutes \in TickSteps : Tick(minutes)

SpecScore == InitScore /\ [][NextScore]_vars

----------------------------------------------------------------------------
(* The learning engine on its own: the content source plays no part *)

InitLearnOnly == InitLearn /\ source = "down"

----------------------------------------------------------------------------
(* One user reading ai_ml articles to the end, one after the other *)

MaxDeepReadCalls == 5

\* 200 seconds and 90% of the page: sent as "read" it is refined to
\* "deep_read"; in the morning or in the evening
DeepReadEvents ==
  { Event("u1", a, "ai_ml", 200, 90, t) :
      a \in {"read", "deep_read"},
      t \in {StartTime, StartTime + 11 * MinutesPerHour} }

NextDeepRead ==
  \E ev \in DeepReadEvents, dbOk \in BOOLEAN :
    /\ ncalls < MaxDeepReadCalls
    /\ Track(ev, dbOk)

SpecDeepRead == InitLearnOnly /\ [][NextDeepRead]_vars

----------------------------------------------------------------------------
(* Callers that read the preferences and write into what they got, between *)
(* tracked events                                                          *)

MaxPrefsCalls == 4

PrefsEvents ==
  { Event("u1", "share", "ai_ml", 30, 90, StartTime),
    Event("u2", "like", "programming", 30, 50, StartTime) }

NextPrefs ==
  /\ ncalls < MaxPrefsCalls
  /\ \/ \E ev \in PrefsEvents, dbOk \in BOOLEAN : Track(ev, dbOk)
     \/ \E u \in {"u1", "u2"} : GetUserPreferences(u)
     \/ \E c \in {"ai_ml", "programming"}, w \in {0, One} : MutateReturned(c, w)

SpecPrefs == InitLearnOnly /\ [][NextPrefs]_vars

----------------------------------------------------------------------------
(* Two users building up a history, of one or of two kinds of action *)

MaxConfidenceCalls == 10

ConfidenceEvents ==
  { Event("u1", "like", "ai_ml", 30, 50, StartTime),
    Event("u1", "share", "ai_ml", 30, 50, StartTime),
    Event("u2", "like", "ai_ml", 30, 50, StartTime) }

NextConfidence ==
  \E ev \in ConfidenceEvents :
    /\ ncalls < MaxConfidenceCalls
    /\ Track(ev, TRUE)

SpecConfidence == InitLearnOnly /\ [][NextConfidence]_vars

----------------------------------------------------------------------------
(* Two threads calling track_behavior on one engine, for one user or two *)

MaxThreadCalls == 2

ThreadEvents ==
  { Event("u1", "share", "ai_ml", 30, 90, StartTime),
    Event("u1", "like", "programming", 30, 50, StartTime),
    Event("u2", "like", "ai_ml", 30, 50, StartTime) }

NextThreads ==
  \E t \in Threads :
    \/ \E ev \in ThreadEvents : ncalls < MaxThreadCalls /\ TrackEnter(t, ev)
    \/ TrackReadWeight(t)
    \/ TrackWriteWeight(t)
    \/ TrackNormalize(t)
    \/ TrackReturn(t)

SpecThreads == InitLearnOnly /\ [][NextThreads]_vars

----------------------------------------------------------------------------
(* A recommendation cache filled to its capacity by 100 requests that     *)
(* differ in their limit, then two threads calling recommend_for_user     *)

MaxCacheThreadCalls == 2

InitFill == InitLearn /\ test_mode = TRUE /\ source = "down"

\* the next request nobody has made yet, and the oldest one again
FillRequests == {ncalls + 1, 1}

FillRank ==
  /\ Len(recommendation_cache) < CacheCapacity
  /\ \A t \in Threads : cache_calls[t].pc = "idle"
  /\ Rank("u1", <<"ai_ml">>, DominantWeights("ai_ml"), ncalls + 1)

NextCacheThreads ==
  \/ FillRank
  \/ \E t \in Threads :
       \/ \E limit \in FillRequests :
            /\ Len(recommendation_cache) >= CacheCapacity
            /\ ncalls < CacheCapacity + MaxCacheThreadCalls
            /\ RankLookup(t, <<"ai_ml">>, DominantWeights("ai_ml"), limit)
       \/ RankReadEntry(t)
       \/ RankCompute(t)
       \/ RankStore(t)
       \/ RankEvict(t)

SpecCacheThreads == InitFill /\ [][NextCacheThreads]_vars

----------------------------------------------------------------------------
(* Requests at the edges: a limit of zero or below, no interests, an      *)
(* empty candidate list                                                   *)

MaxEdgeCalls == 3

EdgeLimits == {-1, 0, 3}

EdgeInterests == {<<>>, <<"ai_ml">>}

EdgeWeights == {DefaultPrefs, DominantWeights("ai_ml")}

EdgeLists == {<<>>, MockData}

NextEdge ==
  /\ ncalls < MaxEdgeCalls
  /\ \/ \E user_interests \in EdgeInterests, user_weights \in EdgeWeights,
          limit \in EdgeLimits :
          Rank("u1", user_interests, user_weights, limit)
     \/ \E news_list \in EdgeLists, user_interests \in EdgeInterests,
          user_weights \in EdgeWeights :
          Score(news_list, user_interests, user_weights)

SpecEdge == InitFill /\ [][NextEdge]_vars

----------------------------------------------------------------------------
(* Requests with ever new weight vectors, which fill the recommendation   *)
(* cache and the score cache past their capacity, the first request made  *)
(* again now and then, and the clock moving past the TTLs                 *)

MaxEvictCalls == 103

MaxRereads == 1

MaxEvictTicks == 1

TickEvery == 50

EvictTick == RecommendationTTL + 1

\* the request numbered k: no two have the same weights
EvictWeights(k) == [DominantWeights("ai_ml") EXCEPT !["programming"] = 78571 + k]

FirstKey == RecKey(<<"ai_ml">>, EvictWeights(0), 3)

NextEvict ==
  /\ ncalls < MaxEvictCalls
  /\ \/ Rank("u1", <<"ai_ml">>, EvictWeights(cache_stats.recommendation_misses), 3)
     \/ /\ HasKey(recommendation_cache, FirstKey)
        /\ cache_stats.recommendation_hits < MaxRereads
        /\ Rank("u1", <<"ai_ml">>, EvictWeights(0), 3)
     \/ /\ ncalls % TickEvery = 0
        /\ now < StartTime + MaxEvictTicks * EvictTick
        /\ Tick(EvictTick)

SpecEvict == InitFill /\ [][NextEvict]_vars

----------------------------------------------------------------------------
(* Requests, direct scoring calls and candidate fetches with the clock    *)
(* moving between them by steps that reach each TTL exactly, stay under   *)
(* it, or pass it                                                          *)

MaxTTLCalls == 5

TTLTicks == {ScoreTTL - 1, ScoreTTL, RecommendationTTL, NewsTTL}

TTLRequests ==
  { [interests |-> <<"ai_ml">>, weights |-> DominantWeights("ai_ml"),
     limit |-> 3],
    [interests |-> <<"programming", "ai_ml">>,
     weights |-> DominantWeights("programming"), limit |-> 3] }

NextTTL ==
  /\ ncalls < MaxTTLCalls
  /\ \/ \E req \in TTLRequests :
          Rank("u1", req.interests, req.weights, req.limit)
     \/ \E req \in TTLRequests : Score(MockData, req.interests, req.weights)
     \/ GetCandidates
     \/ \E minutes \in TTLTicks : Tick(minutes)

SpecTTL == InitFill /\ [][NextTTL]_vars

----------------------------------------------------------------------------
(* Events on both sides of every threshold of the action refinement *)

MaxRefineCalls == 2

RefineActions == {"read", "click", "share"}

RefineDurations ==
  {BounceThreshold, BounceThreshold + 1, SkipDuration, SkipDuration + 1,
   QualityReading, QualityReading + 1, DeepReadDuration - 1, DeepReadDuration}

RefineScrolls == {LowScroll - 1, LowScroll, HighScroll - 1, HighScroll}

NextRefine ==
  \E action \in RefineActions, duration \in RefineDurations,
     scroll \in RefineScrolls :
    /\ ncalls < MaxRefineCalls
    /\ Track(Event("u1", action, "ai_ml", duration, scroll, StartTime), TRUE)

SpecRefine == InitLearnOnly /\ [][NextRefine]_vars

----------------------------------------------------------------------------
(* One request on a fresh engine, over either feed or the fixture set:    *)
(* limits from 1 to 10, one to three interest categories                  *)

MaxDiversityCalls == 1

DiversityLimits == {1, 2, 3, 4, 5, 7, 10}

DiversityInterests ==
  { <<"ai_ml">>, <<"social_media">>, <<"ai_ml", "web3_crypto">>,
    <<"programming", "ai_ml">>, <<"ai_ml", "programming", "web3_crypto">> }

NextDiversity ==
  \E user_interests \in DiversityInterests, limit \in DiversityLimits :
    /\ ncalls < MaxDiversityCalls
    /\ Rank("u1", user_interests, DominantWeights(user_interests[1]), limit)

SpecDiversity == InitRank /\ [][NextDiversity]_vars

----------------------------------------------------------------------------
(* Two requests in a row on a fresh engine, by one user or two, with the  *)
(* same interest categories in one order or the other                     *)

MaxOrderCalls == 2

OrderInterests ==
  { <<"ai_ml", "programming">>, <<"programming", "ai_ml">>,
    <<"ai_ml", "web3_crypto">>, <<"web3_crypto", "ai_ml">> }

OrderLimits == {5, 10}

NextOrder ==
  \E user_id \in {"u1", "u2"}, user_interests \in OrderInterests,
     limit \in OrderLimits :
    /\ ncalls < MaxOrderCalls
    /\ Rank(user_id, user_interests, DominantWeights("ai_ml"), limit)

SpecOrder == InitRank /\ [][NextOrder]_vars

----------------------------------------------------------------------------
(* Properties of the learning engine *)

\* the weight the engine holds for (user, category): the stored one, or the
\* default 1/8 of a vector not created yet
WeightOf(prefs, user_id, category) ==
  IF user_id \in DOMAIN prefs THEN prefs[user_id][category] ELSE DefaultWeight

\* the last call was a track_behavior call that reported success
Accepted == lastResult.success

SumTolerance == 1000

\* what flooring eight quotients to 1e-6 can add to or take from a weight
RoundingSlack == 2 * Len(CategoryOrder)

\* C1: after every accepted event, for every user, the weights of the stored
\* preference vector sum to 1.0 within 1e-3.
C1_WeightsSumToOne ==
  \A u \in DOMAIN user_preferences_cache :
    /\ SumWeights(user_preferences_cache[u]) > One - SumTolerance
    /\ SumWeights(user_preferences_cache[u]) < One + SumTolerance

\* an accepted update whose floor clamp left the total above 1, so that the
\* final division of every weight by the total really rescaled the vector
C1_Witness ==
  /\ Accepted
  /\ lastResult.learning_update.error = "none"
  /\ lastResult.learning_update.adjustment > 0
  /\ \E c \in Categories :
       user_preferences_cache[lastEvent.user_id][c] < MinWeight - RoundingSlack

\* C2: after every accepted event every weight of the stored vector lies
\* within [min_weight, max_weight] = [0.02, 0.45] (up to the rounding of the
\* fixed-point arithmetic).
C2_WeightsWithinBounds ==
  \A u \in DOMAIN user_preferences_cache : \A c \in Categories :
    /\ user_preferences_cache[u][c] >= MinWeight - RoundingSlack
    /\ user_preferences_cache[u][c] <= MaxWeight + RoundingSlack

\* C3: an accepted event with a negative-engagement action has a negative
\* engagement score and strictly decreases the weight of its category unless
\* that weight is already at the min_weight floor.
C3_NegativeActionDecreases ==
  [][ ( /\ ncalls' = ncalls + 1
        /\ lastResult'.success
        /\ lastEvent'.action \in NegativeActions
        /\ lastEvent'.news_category \in Categories )
      => LET u == lastEvent'.user_id
             c == lastEvent'.news_category
             old == WeightOf(user_preferences_cache, u, c)
         IN  /\ lastResult'.engagement_score < 0
             /\ old > MinWeight => WeightOf(user_preferences_cache', u, c) < old
    ]_vars

\* C4: of 1,001 events of one user inside the anomaly window the first 1,000
\* are accepted and the 1,001st is rejected with the anomaly error.
C4_Rejects1001st ==
  /\ (ncalls >= 1 /\ ncalls <= AnomalyCeiling) => lastResult.success
  /\ ncalls = AnomalyCeiling + 1 =>
       (~lastResult.success /\ lastResult.error = "anomaly")

\* C5: an event rejected by the anomaly guard mutates nothing: preference
\* vectors, behaviour history, persisted rows and the rolling count of the
\* window are what they were.
C5_RejectionMutatesNothing ==
  [][ (ncalls' = ncalls + 1 /\ lastResult'.error = "anomaly")
      => UNCHANGED <<user_preferences_cache, user_behaviors_cache,
                     db_behaviors, anomaly_detection>>
    ]_vars

\* C6: an event whose category is outside the fixed category set is rejected
\* before any state change: no success, no vector created or modified, no
\* history entry, nothing persisted.
C6_UnknownCategoryRejected ==
  [][ (ncalls' = ncalls + 1 /\ lastEvent'.news_category \notin Categories)
      => /\ ~lastResult'.success
         /\ UNCHANGED <<user_preferences_cache, user_behaviors_cache,
                        db_behaviors>>
    ]_vars

\* the events of the user the engine holds in its history
HistoryLen(user_id) ==
  IF user_id \in DOMAIN user_behaviors_cache
  THEN Len(user_behaviors_cache[user_id]) ELSE 0

\* C11: for a user who starts from the uniform vector and gets only
\* deep_read events (200 s, 90%) on ai_ml, every accepted event leaves the
\* ai_ml weight above 0.125 and, as long as the weight was under the
\* ceiling, above what it was before the event, and leaves a vector that
\* sums to 1.0 within 1e-3.
C11_DeepReadsRaiseWeight ==
  [][ ( ncalls' = ncalls + 1 /\ lastResult'.success )
      => ( /\ WeightOf(user_preferences_cache', "u1", "ai_ml") > DefaultWeight
           /\ \/ WeightOf(user_preferences_cache', "u1", "ai_ml")
                   > WeightOf(user_preferences_cache, "u1", "ai_ml")
              \/ WeightOf(user_preferences_cache, "u1", "ai_ml")
                   >= MaxWeight - RoundingSlack
           /\ SumWeights(user_preferences_cache'["u1"]) > One - SumTolerance
           /\ SumWeights(user_preferences_cache'["u1"]) < One + SumTolerance ) ]_vars

\* five accepted deep reads in a row
C11_Witness ==
  /\ HistoryLen("u1") = 5
  /\ \A i \in 1..5 : user_behaviors_cache["u1"][i].action = "deep_read"
  /\ system_stats.learning_updates = 5
  /\ WeightOf(user_preferences_cache, "u1", "ai_ml") > 2 * DefaultWeight

\* a step that is a call of get_user_preferences
GetPreferencesStep ==
  system_stats'.cache_hits + system_stats'.cache_misses
    = system_stats.cache_hits + system_stats.cache_misses + 1

\* a step in which the caller writes into the dict it was given
MutateStep == returned' # returned /\ ~GetPreferencesStep

\* the user has no accepted event: no row of theirs was ever stored
NoAcceptedEvent(user_id) ==
  \A i \in 1..Len(db_behaviors) : db_behaviors[i].user_id # user_id

\* C12: a write of the caller into the dict get_user_preferences returned
\* changes nothing the engine holds (the stored vectors, the histories, the
\* counters), so neither a later get_user_preferences nor a later
\* track_behavior can see it; get_user_preferences returns the stored
\* vector, and the uniform 1/8 vector for a user without accepted events.
C12_ReturnedPreferencesAreACopy ==
  [][ /\ MutateStep =>
           UNCHANGED <<user_preferences_cache, user_behaviors_cache,
                       anomaly_detection, system_stats, db_behaviors>>
      /\ GetPreferencesStep =>
           /\ returned'.prefs = user_preferences_cache'[returned'.user_id]
           /\ NoAcceptedEvent(returned'.user_id) => returned'.prefs = DefaultPrefs
    ]_vars

\* the caller has overwritten a weight of the dict it got for a user whose
\* stored vector has been learned, and the stored vector still sums to 1
C12_Witness ==
  /\ returned.user_id = "u1"
  /\ ~NoAcceptedEvent("u1")
  /\ returned.prefs["ai_ml"] = 0
  /\ WeightOf(user_preferences_cache, "u1", "ai_ml") > DefaultWeight

\* the kinds of action in the history the engine holds for the user
ActionKinds(user_id) ==
  IF user_id \in DOMAIN user_behaviors_cache
  THEN {user_behaviors_cache[user_id][i].action :
          i \in 1..Len(user_behaviors_cache[user_id])}
  ELSE {}

\* min(1, min(1, count / threshold) + bonus), the bonus min(kinds / 6, 0.2)
\* for a user with events and nothing for a user without
StatedConfidence(count, kinds) ==
  Min(One, Min(One, (count * One) \div ConfidenceThreshold)
           + (IF count > 0 THEN Min((kinds * One) \div 6, One \div 5) ELSE 0))

TrackedUsers == {"u1", "u2"}

\* C13: in every state the confidence of every user is within [0, 1] and
\* is min(1, min(1, events / threshold) + bonus) over the recorded events,
\* with the bonus min(kinds / 6, 0.2) only for a user with events, and 0
\* for a user without; of two users with the same kinds of action the one
\* with more events has no lower confidence; and an accepted
\* track_behavior reports that confidence.
C13_ConfidenceBoundedAndMonotone ==
  /\ \A u \in TrackedUsers :
       /\ CalculateUserConfidence(user_behaviors_cache, u) >= 0
       /\ CalculateUserConfidence(user_behaviors_cache, u) <= One
       /\ CalculateUserConfidence(user_behaviors_cache, u)
            = StatedConfidence(HistoryLen(u), Cardinality(ActionKinds(u)))
       /\ HistoryLen(u) = 0 => CalculateUserConfidence(user_behaviors_cache, u) = 0
  /\ \A u, v \in TrackedUsers :
       ( ActionKinds(u) = ActionKinds(v) /\ HistoryLen(u) <= HistoryLen(v) )
       => CalculateUserConfidence(user_behaviors_cache, u)
            <= CalculateUserConfidence(user_behaviors_cache, v)
  /\ Accepted =>
       lastResult.user_confidence
         = StatedConfidence(HistoryLen(lastEvent.user_id),
                            Cardinality(ActionKinds(lastEvent.user_id)))

\* nine events of two kinds: 0.9 and the bonus of 0.2 are cut to 1, next
\* to a user of one kind with fewer events and less confidence
C13_Witness ==
  /\ HistoryLen("u1") = 9
  /\ Cardinality(ActionKinds("u1")) = 2
  /\ HistoryLen("u2") = 1
  /\ CalculateUserConfidence(user_behaviors_cache, "u1") = One
  /\ CalculateUserConfidence(user_behaviors_cache, "u2") = 266666

\* what one whole track_behavior call makes of the preference table and
\* the histories
AppliedTo(st, ev) ==
  LET enhanced_action == SmartActionAdjustment(ev)
      bd == BehaviorData(ev, enhanced_action,
                         CalculateEnhancedEngagement(ev, enhanced_action))
      cache1 == StoreBehaviorInCache(st.cache, bd)
      learned == IntelligentPreferenceUpdate(st.prefs, cache1, bd)
  IN  [prefs |-> learned.prefs, cache |-> CleanupOldData(cache1, ev.user_id)]

\* the preference table of a fresh engine after e1 and then e2, one call
\* at a time
SerialOutcome(e1, e2) ==
  AppliedTo(AppliedTo([prefs |-> EmptyMap, cache |-> EmptyMap], e1), e2).prefs

\* each thread has made one call, both for the same user, and both calls
\* have returned with success
BothReturned ==
  /\ ncalls = 2
  /\ \A t \in Threads : /\ track_calls[t].pc = "returned"
                        /\ track_calls[t].result.success
  /\ track_calls["t1"].event.user_id = track_calls["t2"].event.user_id

\* C14: when two track_behavior calls for the same user have run
\* concurrently, the vector they leave is the one some serial order of the
\* two events gives (no update is lost), and it sums to 1.
C14_ConcurrentTracksSerialized ==
  BothReturned =>
    LET e1 == track_calls["t1"].event
        e2 == track_calls["t2"].event
    IN  /\ user_preferences_cache \in {SerialOutcome(e1, e2), SerialOutcome(e2, e1)}
        /\ SumWeights(user_preferences_cache[e1.user_id]) - One <= SumTolerance
        /\ One - SumWeights(user_preferences_cache[e1.user_id]) <= SumTolerance

\* C15: a call reads the user's vector for its update only when every call
\* accepted earlier for the same user has finished its update and its
\* normalization.
C15_AppliedInAcceptanceOrder ==
  [][ \A t \in Threads :
        ( track_calls[t].pc = "stored" /\ track_calls'[t].pc # "stored" )
        => \A o \in Threads \ {t} :
             ( /\ track_calls[o].seq > 0
               /\ track_calls[o].seq < track_calls[t].seq
               /\ track_calls[o].event.user_id = track_calls[t].event.user_id )
             => track_calls[o].pc \in {"updated", "returned"}
    ]_vars

\* a track_behavior call whose row the persistence collaborator refused
PersistenceRefusedStep ==
  /\ ncalls' = ncalls + 1
  /\ lastResult'.error = "db_save_failed"

\* C17: with persistence failing, track_behavior still accepts the event:
\* the call succeeds, the event joins the user's history in memory, and
\* the user's vector is there and sums to 1.
C17_WorksWithoutPersistence ==
  [][ PersistenceRefusedStep =>
        LET user_id == lastEvent'.user_id
        IN  /\ lastResult'.success
            /\ user_id \in DOMAIN user_behaviors_cache'
            /\ user_id \in DOMAIN user_preferences_cache'
            /\ Len(user_behaviors_cache'[user_id]) = HistoryLen(user_id) + 1
            /\ SumWeights(user_preferences_cache'[user_id]) - One <= SumTolerance
            /\ One - SumWeights(user_preferences_cache'[user_id]) <= SumTolerance
    ]_vars

\* what the engine holds of one user: the user's preference vector,
\* behaviour history and anomaly counter, each absent or present
UserState(prefs, cache, ad, user_id) ==
  [preferences |-> IF user_id \in DOMAIN prefs THEN {prefs[user_id]} ELSE {},
   behaviors |-> IF user_id \in DOMAIN cache THEN {cache[user_id]} ELSE {},
   anomaly |-> IF user_id \in DOMAIN ad THEN {ad[user_id]} ELSE {}]

\* C22: a track_behavior call for one user leaves every other user's
\* preference vector, behaviour history and anomaly counter as they were,
\* whether the event is accepted, rejected, refused by the persistence or
\* of an unknown category.
C22_OtherUsersUntouched ==
  [][ ncalls' = ncalls + 1 =>
        \A user_id \in TrackedUsers \ {lastEvent'.user_id} :
          UserState(user_preferences_cache', user_behaviors_cache',
                    anomaly_detection', user_id)
            = UserState(user_preferences_cache, user_behaviors_cache,
                        anomaly_detection, user_id)
    ]_vars

\* u1 has a learned vector, a history and a running anomaly count, and an
\* event of u2 has just been accepted and learned from
C22_Witness ==
  /\ lastEvent.user_id = "u2"
  /\ lastResult.success
  /\ lastResult.learning_update.error = "none"
  /\ "u2" \in DOMAIN user_preferences_cache
  /\ "u1" \in DOMAIN user_preferences_cache
  /\ user_preferences_cache["u1"] # DefaultPrefs
  /\ "u1" \in DOMAIN user_behaviors_cache
  /\ Len(user_behaviors_cache["u1"]) = 2
  /\ "u1" \in DOMAIN anomaly_detection
  /\ anomaly_detection["u1"].behavior_count_last_hour = 1

\* a duration the refinement takes for very short: up to skip_duration
\* for a read, up to bounce_threshold for a click
VeryShort(ev) ==
  \/ ev.action = "read" /\ ev.reading_duration <= SkipDuration
  \/ ev.action = "click" /\ ev.reading_duration <= BounceThreshold

\* C23: the refined action of an accepted event depends on nothing but
\* the event's action, duration and scroll (two recorded events that agree
\* in these carry the same refined action); a "read" of 90 s or more with
\* a scroll of 75 or more is a "deep_read"; and every "read" or "click"
\* with a very short duration or a scroll under 25 is a "skip".
C23_ActionRefinement ==
  /\ \A i, j \in 1..Len(db_behaviors) :
       ( /\ db_behaviors[i].original_action = db_behaviors[j].original_action
         /\ db_behaviors[i].reading_duration = db_behaviors[j].reading_duration
         /\ db_behaviors[i].scroll_percentage = db_behaviors[j].scroll_percentage )
       => db_behaviors[i].action = db_behaviors[j].action
  /\ lastResult.success =>
       /\ ( /\ lastEvent.action = "read"
            /\ lastEvent.reading_duration >= DeepReadDuration
            /\ lastEvent.scroll_percentage >= HighScroll )
          => lastResult.enhanced_action = "deep_read"
       /\ ( /\ lastEvent.action \in {"read", "click"}
            /\ VeryShort(lastEvent) \/ lastEvent.scroll_percentage < LowScroll )
          => lastResult.enhanced_action = "skip"

\* the learning rate as stated: the base rate times 1.4 under a
\* confidence of 0.3, times 0.8 above 0.7, the base rate in between
StatedLearningRate(confidence) ==
  IF 10 * confidence < 3 * One THEN (BaseLearningRate * 14) \div 10
  ELSE IF 10 * confidence > 7 * One THEN (BaseLearningRate * 8) \div 10
  ELSE BaseLearningRate

\* confidences from 0 to 1 in steps of 0.05, and those next to 0.3 and 0.7
ConfidenceGrid ==
  {(k * One) \div 20 : k \in 0..20} \cup {299999, 300001, 699999, 700001}

\* C27: the learning rate never rises with the confidence, and it is the
\* stated one (base x 1.4 under 0.3, base x 0.8 above 0.7, base in
\* between); the rate a learned event reports and is applied with is the
\* rate for the confidence of the user's history with that event in it.
C27_LearningRateFollowsConfidence ==
  [][ ( /\ ncalls' = ncalls + 1
        /\ lastResult'.success
        /\ lastResult'.learning_update.error = "none" )
      => /\ \A c \in ConfidenceGrid :
              LET confidence == lastResult'.learning_update.user_confidence
              IN  /\ CalculateAdaptiveLearningRate(c) = StatedLearningRate(c)
                  /\ c <= confidence => CalculateAdaptiveLearningRate(c)
                                          >= CalculateAdaptiveLearningRate(confidence)
                  /\ c >= confidence => CalculateAdaptiveLearningRate(c)
                                          <= CalculateAdaptiveLearningRate(confidence)
         /\ Len(user_behaviors_cache'[lastEvent'.user_id])
              = HistoryLen(lastEvent'.user_id) + 1
         /\ lastResult'.learning_update.user_confidence
              = StatedConfidence(Len(user_behaviors_cache'[lastEvent'.user_id]),
                                 Cardinality(ActionKinds(lastEvent'.user_id)
                                             \cup {lastResult'.enhanced_action}))
         /\ lastResult'.learning_update.learning_rate
              = StatedLearningRate(lastResult'.learning_update.user_confidence)
         /\ lastResult'.learning_update.adjustment
              = MulS(MulS(lastResult'.engagement_score,
                          StatedLearningRate(lastResult'.learning_update.user_confidence)),
                     CalculateTimeWeight(lastEvent'.timestamp))
    ]_vars

\* the sixth event of one kind of a user: with it the confidence is 0.767,
\* without it 0.667, and the event was learned at 0.8 times the base rate
C27_Witness ==
  /\ lastResult.success
  /\ lastEvent.user_id = "u1"
  /\ Len(user_behaviors_cache["u1"]) = 6
  /\ Cardinality(ActionKinds("u1")) = 1
  /\ lastResult.learning_update.user_confidence = 766666
  /\ lastResult.learning_update.learning_rate = (BaseLearningRate * 8) \div 10

\* the timestamps of the events of SpecTrack, the unparsable one apart
EventTimes == {ev.timestamp : ev \in TrackEvents} \ {BadTimestamp}

\* C28: the time-decay multiplier of a learned event is within [0.1, 1]
\* for every timestamp, later than the current time and unparsable ones
\* included, so that the adjustment is never above engagement x learning
\* rate; and of two timestamps the earlier never has the higher multiplier.
C28_TimeWeightOnlyAttenuates ==
  ( lastResult.success /\ lastResult.learning_update.error = "none" )
  => /\ CalculateTimeWeight(lastEvent.timestamp) >= MinTimeWeight
     /\ CalculateTimeWeight(lastEvent.timestamp) <= One
     /\ lastResult.learning_update.adjustment
          <= MulS(lastResult.engagement_score,
                  lastResult.learning_update.learning_rate)
     /\ \A t1, t2 \in EventTimes :
          t1 <= t2 => CalculateTimeWeight(t1) <= CalculateTimeWeight(t2)

----------------------------------------------------------------------------
(* Properties of the recommendation engine *)

CategoryAt(list, i) == list[i].category

\* a step that is a call of recommend_for_user
RankStep == cache_stats'.total_requests = cache_stats.total_requests + 1

\* a step that is a direct call of get_cached_personalized_scores
ScoreStep == lastCall'.op = "score" /\ now' = now /\ ncalls' = ncalls + 1

CacheMisses(stats) == stats.news_misses + stats.recommendation_misses

\* C7: when recommend_for_user is called again with the interests, weights
\* and limit of the call before it, and the list that call returned was
\* stored less than the recommendation TTL ago, the second call returns
\* the same list in the same order, adds one to recommendation_hits, and
\* neither fetches candidates nor runs a scoring pass.
C7_RepeatedRankServedFromCache ==
  [][ ( /\ RankStep
        /\ lastCall.op = "rank"
        /\ lastCall'.interests = lastCall.interests
        /\ lastCall'.weights = lastCall.weights
        /\ lastCall'.limit = lastCall.limit
        /\ now - lastCall.stored_at < RecommendationTTL )
      => ( /\ lastCall'.result = lastCall.result
           /\ cache_stats'.recommendation_hits
                = cache_stats.recommendation_hits + 1
           /\ work' = work ) ]_vars

\* a second identical call, some minutes after the first, the source
\* having been asked once and one scoring pass made
C7_Witness ==
  /\ lastCall.op = "rank"
  /\ lastCall.hit
  /\ lastCall.result # <<>>
  /\ now > lastCall.stored_at
  /\ cache_stats.recommendation_hits = 1
  /\ cache_stats.total_requests = 2
  /\ work = [fetches |-> 1, scoring_passes |-> 1]

\* C8: when get_cached_personalized_scores is called with the cache key of
\* the scoring call before it and a candidate list whose set of ids is
\* another one, it returns the scores computed over the current
\* candidates, runs a scoring pass, and a cache-miss counter goes up.
C8_CandidateChangeRecomputed ==
  [][ ( /\ ScoreStep
        /\ lastCall.op = "score"
        /\ ScoreKey(lastCall'.interests, lastCall'.weights)
             = ScoreKey(lastCall.interests, lastCall.weights)
        /\ IdSet(lastCall'.candidates) # IdSet(lastCall.candidates) )
      => ( /\ lastCall'.result =
                ComputeScores(lastCall'.candidates, lastCall'.interests,
                              lastCall'.weights, now)
           /\ work'.scoring_passes = work.scoring_passes + 1
           /\ CacheMisses(cache_stats') > CacheMisses(cache_stats) ) ]_vars

\* the categories that have at least limit items above the threshold
\* among the candidates the last recommendation was computed from
SufficientCategories ==
  LET scored == ComputeScores(EntryOf(news_cache, NewsKey).data,
                              lastCall.interests, lastCall.weights,
                              lastCall.time)
  IN  {c \in Categories : CountCategory(scored, c) >= lastCall.limit}

\* C9: a recommendation computed for limit 10 and one interest category,
\* from candidates of which at least three categories (the interest among
\* them) have ten or more items above the threshold, holds at most 7
\* items of the interest category.
C9_DominantCategoryQuota ==
  ( /\ lastCall.op = "rank"
    /\ ~lastCall.hit
    /\ lastCall.limit = 10
    /\ Len(lastCall.interests) = 1
    /\ HasKey(news_cache, NewsKey)
    /\ Cardinality(SufficientCategories) >= 3
    /\ lastCall.interests[1] \in SufficientCategories )
  => CountCategory(lastCall.result, lastCall.interests[1])
       <= UserInterestSlots(lastCall.limit)

\* C10: in a recommendation for limit 10, three items in a row are of one
\* category only when every item from there to the end is of that
\* category, that is when no second category is left.
C10_NoLongRunWhileOthersRemain ==
  ( lastCall.op = "rank" /\ lastCall.limit = 10 )
  => \A i \in 1..(Len(lastCall.result) - 2) :
       ( /\ CategoryAt(lastCall.result, i) = CategoryAt(lastCall.result, i + 1)
         /\ CategoryAt(lastCall.result, i) = CategoryAt(lastCall.result, i + 2) )
       => \A j \in i..Len(lastCall.result) :
            CategoryAt(lastCall.result, j) = CategoryAt(lastCall.result, i)

\* a full list of ten over three categories that ends in a run of one
\* category, the other two used up
C10_Witness ==
  /\ lastCall.op = "rank"
  /\ lastCall.limit = 10
  /\ Len(lastCall.result) = 10
  /\ Cardinality({CategoryAt(lastCall.result, i) : i \in 1..10}) = 3
  /\ CategoryAt(lastCall.result, 8) = CategoryAt(lastCall.result, 9)
  /\ CategoryAt(lastCall.result, 9) = CategoryAt(lastCall.result, 10)
  /\ CategoryAt(lastCall.result, 1) # CategoryAt(lastCall.result, 2)

\* C16: whatever the interleaving of concurrent recommend_for_user calls,
\* a write that evicts included, no call fails and every entry of the
\* recommendation cache is a complete pair of data and timestamp.
C16_CacheTablesSafeUnderConcurrency ==
  /\ \A t \in Threads : cache_calls[t].pc # "failed"
  /\ \A i \in 1..Len(recommendation_cache) :
       DOMAIN recommendation_cache[i] = {"key", "data", "timestamp"}

\* a get_cached_news_data, direct or inside recommend_for_user, that went
\* to the content source
FetchStep == work'.fetches = work.fetches + 1

\* C18: when the content source cannot be reached, a get_cached_news_data
\* that goes to it serves the five items of the fixture set, never an
\* empty list, and stores them in the news cache under the current time;
\* a recommend_for_user over it ranks items of the fixture set.
C18_FixtureServedWhenSourceDown ==
  [][ ( FetchStep /\ source = "down" ) =>
        /\ Len(MockData) = 5
        /\ HasKey(news_cache', NewsKey)
        /\ EntryOf(news_cache', NewsKey).data = MockData
        /\ EntryOf(news_cache', NewsKey).timestamp = now
        /\ lastCall'.op = "candidates" => lastCall'.result = MockData
        /\ lastCall'.op = "rank" => IdSet(lastCall'.result) \subseteq IdSet(MockData)
    ]_vars

\* the source is down and a recommend_for_user has just ranked the
\* fixture set, which the news cache now holds
C18_Witness ==
  /\ source = "down"
  /\ lastCall.op = "rank"
  /\ ~lastCall.hit
  /\ lastCall.result # <<>>
  /\ IdSet(lastCall.result) \subseteq IdSet(MockData)
  /\ HasKey(news_cache, NewsKey)
  /\ EntryOf(news_cache, NewsKey).data = MockData
  /\ EntryOf(news_cache, NewsKey).timestamp = lastCall.time

\* C19: recommend_for_user returns a list for every request with a
\* well-formed weight vector: the empty list for a limit of zero or below
\* and when no candidate can be scored (no interests), and never more
\* items than a positive limit; scoring an empty candidate list gives the
\* empty list.
C19_EdgeInputsGiveEmptyList ==
  [][ /\ ( RankStep /\ lastCall'.limit <= 0 ) => lastCall'.result = <<>>
      /\ ( RankStep /\ lastCall'.interests = <<>> ) => lastCall'.result = <<>>
      /\ ( RankStep /\ lastCall'.limit > 0 ) =>
           Len(lastCall'.result) <= lastCall'.limit
      /\ ( ScoreStep /\ lastCall'.candidates = <<>> ) => lastCall'.result = <<>>
    ]_vars

\* a request with a limit of zero has just been answered with the empty
\* list, computed over candidates that were there and scored
C19_Witness ==
  /\ lastCall.op = "rank"
  /\ lastCall.limit = 0
  /\ lastCall.interests = <<"ai_ml">>
  /\ ~lastCall.hit
  /\ lastCall.result = <<>>
  /\ HasKey(score_cache, ScoreKey(lastCall.interests, lastCall.weights))
  /\ EntryOf(score_cache, ScoreKey(lastCall.interests, lastCall.weights)).data # <<>>
  /\ HasKey(recommendation_cache,
            RecKey(lastCall.interests, lastCall.weights, lastCall.limit))

EntrySet(cache_dict) == {cache_dict[i] : i \in 1..Len(cache_dict)}

\* what a step may do to a cache table: leave it at 100 entries at most;
\* add one entry at a time; and shrink it only from 100 entries, by a write
\* of a new key that stays, last in the dict and stamped with the current
\* time, while 20 entries go, none of them stored later than an entry that
\* stays, and the entries that stay are as they were
TableStep(cache_dict, after) ==
  /\ Len(after) <= CacheCapacity
  /\ Len(after) <= Len(cache_dict) + 1
  /\ Len(after) < Len(cache_dict) =>
       LET written == after[Len(after)]
           removed == {e \in EntrySet(cache_dict) : ~HasKey(after, e.key)}
       IN  /\ Len(cache_dict) = CacheCapacity
           /\ Len(after) = CacheCapacity + 1 - EvictCount
           /\ ~HasKey(cache_dict, written.key)
           /\ written.timestamp = now
           /\ Cardinality(removed) = EvictCount
           /\ \A r \in removed, e \in EntrySet(after) : r.timestamp <= e.timestamp
           /\ \A i \in 1..(Len(after) - 1) : after[i] \in EntrySet(cache_dict)

\* C20: none of the three cache tables holds more than 100 entries after a
\* call; a write that takes a table past 100 removes the 20 entries stored
\* longest ago and keeps the one just written; and a call served from the
\* recommendation cache changes no entry and no timestamp.
C20_EvictionByInsertionTime ==
  [][ /\ TableStep(recommendation_cache, recommendation_cache')
      /\ TableStep(score_cache, score_cache')
      /\ TableStep(news_cache, news_cache')
      /\ cache_stats'.recommendation_hits = cache_stats.recommendation_hits + 1
           => UNCHANGED <<recommendation_cache, score_cache, news_cache>>
    ]_vars

\* the first request was served from the cache after 99 others had been
\* stored, and the 101st write has evicted it all the same, with 19
\* others, from both tables; the 101st entry is there
C20_Witness ==
  /\ cache_stats.recommendation_hits = 1
  /\ cache_stats.recommendation_misses = CacheCapacity + 1
  /\ Len(recommendation_cache) = CacheCapacity + 1 - EvictCount
  /\ Len(score_cache) = CacheCapacity + 1 - EvictCount
  /\ ~HasKey(recommendation_cache, FirstKey)
  /\ HasKey(recommendation_cache, RecKey(<<"ai_ml">>, EvictWeights(CacheCapacity), 3))
  /\ lastCall.stored_at > StartTime

\* the table holds an entry under the key, stored ttl or more ago
Expired(cache_dict, key, ttl) ==
  /\ HasKey(cache_dict, key)
  /\ now - EntryOf(cache_dict, key).timestamp >= ttl

\* the table holds under the key the value, stored at the current time
StoredNow(cache_dict, key, value) ==
  /\ HasKey(cache_dict, key)
  /\ EntryOf(cache_dict, key).data = value
  /\ EntryOf(cache_dict, key).timestamp = now

\* a step in which get_cached_news_data ran, called directly or by
\* recommend_for_user
NewsStep ==
  cache_stats'.news_hits + cache_stats'.news_misses
    = cache_stats.news_hits + cache_stats.news_misses + 1

\* a step in which get_cached_personalized_scores ran, called directly or
\* by recommend_for_user
ScoresStep == ScoreStep \/ (RankStep /\ ~lastCall'.hit)

\* C21: no cache tier serves an entry whose age has reached its TTL
\* (recommendations 10 minutes, scores 5, candidates 30).  A call that
\* finds such an entry under its key counts a miss, computes anew and
\* leaves under the key what it computed, stamped with the current time;
\* and whatever a tier serves from its table is younger than its TTL.
C21_ExpiredEntryNeverServed ==
  [][ LET rec_key == RecKey(lastCall'.interests, lastCall'.weights, lastCall'.limit)
          score_key == ScoreKey(lastCall'.interests, lastCall'.weights)
          news_list == IF lastCall'.op = "score" THEN lastCall'.candidates
                       ELSE EntryOf(news_cache', NewsKey).data
      IN
      /\ ( RankStep /\ Expired(recommendation_cache, rec_key, RecommendationTTL) ) =>
           /\ ~lastCall'.hit
           /\ cache_stats'.recommendation_misses
                = cache_stats.recommendation_misses + 1
           /\ StoredNow(recommendation_cache', rec_key, lastCall'.result)
           /\ lastCall'.result =
                ApplyDiversityControl(EntryOf(score_cache', score_key).data,
                                      lastCall'.interests, lastCall'.limit)
      /\ ( RankStep /\ lastCall'.hit ) =>
           /\ HasKey(recommendation_cache, rec_key)
           /\ now - EntryOf(recommendation_cache, rec_key).timestamp
                < RecommendationTTL
           /\ lastCall'.result = EntryOf(recommendation_cache, rec_key).data
      /\ ( ScoresStep /\ Expired(score_cache, score_key, ScoreTTL) ) =>
           /\ work'.scoring_passes = work.scoring_passes + 1
           /\ HasKey(score_cache', score_key)
           /\ EntryOf(score_cache', score_key).timestamp = now
           /\ IdSet(EntryOf(score_cache', score_key).data) =
                IdSet(ComputeScores(news_list, lastCall'.interests,
                                    lastCall'.weights, now))
      /\ ( ScoresStep /\ work'.scoring_passes = work.scoring_passes ) =>
           /\ HasKey(score_cache, score_key)
           /\ now - EntryOf(score_cache, score_key).timestamp < ScoreTTL
      /\ ( NewsStep /\ Expired(news_cache, NewsKey, NewsTTL) ) =>
           /\ FetchStep
           /\ cache_stats'.news_misses = cache_stats.news_misses + 1
           /\ StoredNow(news_cache', NewsKey, GetNewsData(source, work.fetches, now))
      /\ ( NewsStep /\ ~FetchStep ) =>
           /\ HasKey(news_cache, NewsKey)
           /\ now - EntryOf(news_cache, NewsKey).timestamp < NewsTTL
    ]_vars

\* the same request twice, exactly the recommendation TTL apart: the
\* second found the entry of the first at the age of the TTL, was counted
\* a miss, and the one entry of the table now carries the time of the
\* second
C21_Witness ==
  /\ lastCall.op = "rank"
  /\ ~lastCall.hit
  /\ cache_stats.total_requests = 2
  /\ cache_stats.recommendation_misses = 2
  /\ Len(recommendation_cache) = 1
  /\ now = StartTime + RecommendationTTL
  /\ recommendation_cache[1].timestamp = now
  /\ Len(score_cache) = 1
  /\ score_cache[1].timestamp = now
  /\ work.scoring_passes = 2

\* C24: in every list recommend_for_user returns, of whatever length (the
\* lists of three items or fewer included), two neighbours are of one
\* category only when every item from there to the end is of that
\* category, that is when no other category has an item left to emit.
C24_NoNeighboursWhileOthersRemain ==
  lastCall.op = "rank"
  => \A i \in 1..(Len(lastCall.result) - 1) :
       CategoryAt(lastCall.result, i) = CategoryAt(lastCall.result, i + 1)
       => \A j \in i..Len(lastCall.result) :
            CategoryAt(lastCall.result, j) = CategoryAt(lastCall.result, i)

\* the sorted scores the last recommendation was computed from: the list
\* the score cache holds under the request's key
ScoredOfLastCall ==
  EntryOf(score_cache, ScoreKey(lastCall.interests, lastCall.weights)).data

\* what the three buckets gave to the last recommendation
BucketsOfLastCall ==
  BucketSelection(ScoredOfLastCall, lastCall.interests, lastCall.limit)

\* a recommendation has just been computed, for a limit above zero
ComputedRank == lastCall.op = "rank" /\ ~lastCall.hit /\ lastCall.limit > 0

\* how many items of the list are of one of the interest categories
CountInterest(list, user_interests) ==
  Cardinality({i \in 1..Len(list) : InList(list[i].category, user_interests)})

\* C25: for every limit above zero and every interest list the balanced
\* selection within the interest bucket gives at most int(0.7 * limit)
\* items; and when the related and the exploration bucket hold enough
\* items for their quotas, at most 70% of limit items of the returned list
\* are of an interest category.
C25_InterestBucketWithinQuota ==
  ComputedRank =>
    LET limit == lastCall.limit
        buckets == BucketsOfLastCall
    IN  /\ Len(buckets.interest) <= UserInterestSlots(limit)
        /\ ( /\ buckets.related_left >= RelatedSlots(limit)
             /\ buckets.exploration_left
                  >= limit - UserInterestSlots(limit) - RelatedSlots(limit) )
           => 10 * CountInterest(lastCall.result, lastCall.interests) <= 7 * limit

C29_UnchangedCandidatesServedFromCache ==
  [][ LET score_key == ScoreKey(lastCall'.interests, lastCall'.weights)
      IN  ( /\ ScoreStep
            /\ lastCall.op = "score"
            /\ score_key = ScoreKey(lastCall.interests, lastCall.weights)
            /\ lastCall'.candidates = lastCall.candidates
            /\ HasKey(score_cache, score_key)
            /\ now - EntryOf(score_cache, score_key).timestamp < ScoreTTL )
          => ( /\ lastCall'.hit
               /\ lastCall'.result = lastCall.result
               /\ work' = work
               /\ score_cache' = score_cache )
    ]_vars

\* what recommend_for_user computes for the request over the candidates
\* the news cache holds, with no cache of scores or recommendations
FreshRank(user_interests, user_weights, limit) ==
  ApplyDiversityControl(
    SortDescBy(ComputeScores(EntryOf(news_cache, NewsKey).data, user_interests,
                             user_weights, now),
               "personalized_score"),
    user_interests, limit)

\* C30: a list served from the recommendation cache is the list a fresh
\* computation over the same candidates gives for the caller's interests
\* (in the caller's order), weights and limit, whoever the user is and
\* in whatever order the call that stored the entry listed the interests.
C30_CachedRankEqualsFreshRank ==
  [][ ( RankStep /\ lastCall'.hit )
      => lastCall'.result
           = FreshRank(lastCall'.interests, lastCall'.weights, lastCall'.limit)
    ]_vars

====
